---------------------------- MODULE Spec2Model ----------------------------
(***************************************************************************)
(* Trustless bridge oracle: the Bitcoin-side consensus fetcher             *)
(* (BitcoinConnection.fetchTransactionInfo and its helpers) and the        *)
(* event-driven burn / mint state machine (TrustlessBridgeOracle).         *)
(*                                                                         *)
(* The specifications share the variables:                                 *)
(*   Spec      - the oracle: contract events start handlers, every await   *)
(*               of a handler is one step, handlers interleave freely.     *)
(*   SpecLive  - Spec, with every awaited call of a handler settling.      *)
(*   SpecStop  - Spec, with stop() and the return of run().                *)
(*   SpecFetch - one fetchTransactionInfo call: connect the RPC nodes,     *)
(*               query every client, settle, reconcile.                    *)
(*   SpecApi   - one BitcoinActions.fetchTransactionInfo call: the block   *)
(*               explorer APIs are tried in turn, then the tip height.     *)
(*   SpecPlan  - one BitcoinActions.generateAndSignTransaction call: the   *)
(*               UTXOs, the fee rate, the amounts, the transaction, the    *)
(*               signer session and the signature of every input.          *)
(*   SpecFee   - SpecPlan with an RPC provider whose estimatesmartfee may   *)
(*               answer any number.                                        *)
(*   SpecDer   - the DER encoding of one signature (r, s) and its reading. *)
(*   SpecNode  - fetchFromNode's loop over the inputs of a transaction:    *)
(*               the sender of every input.                                *)
(*   SpecRpc   - SapphireConnection: contract calls that fail with RPC     *)
(*               errors, handleRpcError and reconnect, interleaved.        *)
(***************************************************************************)
EXTENDS Integers, Sequences, FiniteSets

VARIABLES
    oracle,     \* TrustlessBridgeOracle: isRunning, registered listeners, exited
    burn,       \* the contract's burn record of the one burn id under observation
    handlers,   \* one entry per delivered event: the handler's position, locals and the calls it made
    fetch,      \* one fetchTransactionInfo call: position, clients, per-node outcome, result
    btc,        \* one call of a BitcoinActions method: position, inputs, locals, outcome
    sapphire    \* SapphireConnection: isReconnecting, reconnectAttempts, the contract calls under way

vars == <<oracle, burn, handlers, fetch, btc, sapphire>>

-----------------------------------------------------------------------------
(* Bounds of the model.                                                    *)

\* Number of contract events delivered to the oracle in one run.
MaxEvents == 2

\* Number of configured Bitcoin RPC nodes of one fetch.
MaxProviders == 3

\* Number of contract calls made through one SapphireConnection.
MaxCalls == 3

-----------------------------------------------------------------------------
(* Values.                                                                 *)

NULL == "null"

\* The bridge's Bitcoin address (contract.bitcoinAddress()), the payout
\* destination of the burn, two depositor addresses.
TrackedAddress == "tracked"
DestAddress == "dest"
AddrA == "addrA"
AddrB == "addrB"

\* Burn status values.  The handlers compare against 1 and 2.
Requested == 0
GenerateRequested == 1
Signed == 2
Validated == 3
BurnStatuses == {Requested, GenerateRequested, Signed, Validated}

\* validateBurnTransaction: txInfo.confirmations >= 6
MinConfirmations == 6

-----------------------------------------------------------------------------
(* BitcoinTransactionInfo and the provider adapter (fetchFromNode).        *)

\* A null `sender` is the empty sequence: the adapters never return an empty
\* array (senders.length > 0 ? senders : null), so the two cannot be confused.
Facts(amount, sender, receiver, confirmations, provider) ==
    [ok |-> TRUE, amount |-> amount, sender |-> sender, receiver |-> receiver,
     confirmations |-> confirmations, provider |-> provider]

\* fetchFromNode's `return null` (any error inside it is caught there).
NoResult(provider) ==
    [ok |-> FALSE, amount |-> 0, sender |-> <<>>, receiver |-> NULL,
     confirmations |-> 0, provider |-> provider]

RECURSIVE Includes(_, _)
Includes(s, x) ==
    IF s = <<>> THEN FALSE
    ELSE IF Head(s) = x THEN TRUE ELSE Includes(Tail(s), x)

\* The loop over tx.vin: each input's resolved address (NULL when no method
\* yields one) is pushed unless already included.
RECURSIVE ExtractSendersFrom(_, _)
ExtractSendersFrom(vin, senders) ==
    IF vin = <<>> THEN senders
    ELSE LET sender == Head(vin) IN
         IF sender # NULL /\ ~Includes(senders, sender)
         THEN ExtractSendersFrom(Tail(vin), Append(senders, sender))
         ELSE ExtractSendersFrom(Tail(vin), senders)

ExtractSenders(vin) == ExtractSendersFrom(vin, <<>>)

\* The loop over tx.vout: the satoshis paid to the tracked address.
RECURSIVE TotalAmount(_)
TotalAmount(vout) ==
    IF vout = <<>> THEN 0
    ELSE (IF Head(vout).address = TrackedAddress THEN Head(vout).value ELSE 0)
         + TotalAmount(Tail(vout))

RECURSIVE IsTrackedAddressReceiver(_)
IsTrackedAddressReceiver(vout) ==
    IF vout = <<>> THEN FALSE
    ELSE Head(vout).address = TrackedAddress \/ IsTrackedAddressReceiver(Tail(vout))

\* The record fetchFromNode returns for a verbose raw transaction `tx`.
NodeFacts(tx, nodeName) ==
    Facts(IF IsTrackedAddressReceiver(tx.vout) THEN TotalAmount(tx.vout) ELSE 0,
          ExtractSenders(tx.vin),
          IF IsTrackedAddressReceiver(tx.vout) THEN TrackedAddress ELSE NULL,
          tx.confirmations,
          nodeName)

-----------------------------------------------------------------------------
(* Reconciliation: areResultsConsistent and getMostCommonResult.           *)

\* result.amount === first.amount && JSON.stringify(result.sender) ===
\* JSON.stringify(first.sender) && ... : the sender arrays are compared as
\* serialised, position by position.
SameFields(r, first) ==
    /\ r.amount = first.amount
    /\ r.sender = first.sender
    /\ r.receiver = first.receiver
    /\ r.confirmations = first.confirmations

AreResultsConsistent(results) ==
    IF Len(results) <= 1 THEN TRUE
    ELSE \A i \in 1..Len(results) : SameFields(results[i], results[1])

\* `${amount}-${JSON.stringify(sender)}-${receiver}-${confirmations}`: the
\* string is an injective rendering of the four fields (amounts are
\* non-negative integers, addresses hold no '-', '"' or brackets), so the
\* tuple stands for it.
ResultKey(r) == <<r.amount, r.sender, r.receiver, r.confirmations>>

\* results.forEach over the counts Map: entries are kept in insertion order,
\* each with the first result that produced its key.
RECURSIVE BumpCount(_, _)
BumpCount(counts, key) ==
    IF counts = <<>> THEN <<>>
    ELSE IF Head(counts).key = key
         THEN <<[Head(counts) EXCEPT !.count = @ + 1]>> \o Tail(counts)
         ELSE <<Head(counts)>> \o BumpCount(Tail(counts), key)

HasKey(counts, key) == \E i \in 1..Len(counts) : counts[i].key = key

RECURSIVE CountResults(_, _)
CountResults(results, counts) ==
    IF results = <<>> THEN counts
    ELSE LET key == ResultKey(Head(results)) IN
         IF HasKey(counts, key)
         THEN CountResults(Tail(results), BumpCount(counts, key))
         ELSE CountResults(Tail(results),
                           Append(counts, [key |-> key, count |-> 1, result |-> Head(results)]))

\* Mutation: an equal count replaces the running best too.
RECURSIVE PickMaxLast(_, _, _)
PickMaxLast(counts, maxCount, mostCommonResult) ==
    IF counts = <<>> THEN mostCommonResult
    ELSE IF Head(counts).count >= maxCount
         THEN PickMaxLast(Tail(counts), Head(counts).count, Head(counts).result)
         ELSE PickMaxLast(Tail(counts), maxCount, mostCommonResult)

\* counts.forEach: a strictly higher count replaces the running best.
RECURSIVE PickMax(_, _, _)
PickMax(counts, maxCount, mostCommonResult) ==
    IF counts = <<>> THEN mostCommonResult
    ELSE IF Head(counts).count > maxCount
         THEN PickMax(Tail(counts), Head(counts).count, Head(counts).result)
         ELSE PickMax(Tail(counts), maxCount, mostCommonResult)

\* Called with a non-empty list only (fetchTransactionInfo throws before).
GetMostCommonResult(results) ==
    IF Len(results) = 1 THEN results[1]
    ELSE PickMax(CountResults(results, <<>>), 0, results[1])

\* Mutation: the null results are not filtered out.
SuccessfulResultsUnfiltered(results) == results

\* results.filter(fulfilled && value !== null).map(value), in list order.
RECURSIVE SuccessfulResults(_)
SuccessfulResults(results) ==
    IF results = <<>> THEN <<>>
    ELSE IF Head(results).ok
         THEN <<Head(results)>> \o SuccessfulResults(Tail(results))
         ELSE SuccessfulResults(Tail(results))

\* The outcome of fetchTransactionInfo once every node has settled:
\* an error when nothing is left, else the most common result.
FetchError == [ok |-> FALSE, amount |-> 0, sender |-> <<>>, receiver |-> NULL,
               confirmations |-> 0, provider |-> 0]

\* Mutation: one rejected or null provider fails the whole fetch.
FetchTransactionInfoAll(results) ==
    IF Len(SuccessfulResults(results)) < Len(results) THEN FetchError
    ELSE GetMostCommonResult(results)

FetchTransactionInfo(results) ==
    LET successfulResults == SuccessfulResults(results) IN
    IF Len(successfulResults) = 0 THEN FetchError
    ELSE GetMostCommonResult(successfulResults)

-----------------------------------------------------------------------------
(* One fetchTransactionInfo call (SpecFetch).                              *)

\* The transaction looked up spends three inputs owned by A, B and A.  A node
\* resolves an input's address or not (a failed previous-output lookup is
\* caught and leaves the input without sender), so a node's view of vin is
\* the true owner or NULL at each position.
TrueVin == <<AddrA, AddrB, AddrA>>

VinViews ==
    {v \in [1..Len(TrueVin) -> {AddrA, AddrB, NULL}] :
        \A i \in 1..Len(TrueVin) : v[i] \in {TrueVin[i], NULL}}

\* A node's view of the outputs: 5 satoshis to the tracked address, or to
\* somebody else, or an output of value 0 to the tracked address.
VoutViews ==
    {<<[address |-> TrackedAddress, value |-> 5]>>,
     <<[address |-> DestAddress, value |-> 5]>>,
     <<[address |-> TrackedAddress, value |-> 0]>>}

\* tx.confirmations || 0 as the node reports it (nodes may lag by a block).
ConfirmationViews == {5, 6}

\* What a node may report for the transaction: the truth (all inputs
\* resolved, 5 satoshis to the tracked address, 6 confirmations) or a view
\* that departs from it in one respect.
TruePayload ==
    [vin |-> TrueVin, vout |-> <<[address |-> TrackedAddress, value |-> 5]>>,
     confirmations |-> 6]

Departures(tx) ==
    (IF tx.vin = TruePayload.vin THEN 0 ELSE 1)
    + (IF tx.vout = TruePayload.vout THEN 0 ELSE 1)
    + (IF tx.confirmations = TruePayload.confirmations THEN 0 ELSE 1)

NodePayloads ==
    {tx \in [vin : VinViews, vout : VoutViews, confirmations : ConfirmationViews] :
        Departures(tx) <= 1}

Pending(provider) ==
    [ok |-> FALSE, amount |-> 0, sender |-> <<>>, receiver |-> NULL,
     confirmations |-> -1, provider |-> provider]

IsPending(r) == r.confirmations = -1

FetchIdle(nodes) ==
    [pc |-> "idle", nodes |-> nodes, clients |-> <<>>, results |-> <<>>,
     responded |-> <<>>, out |-> FetchError]

\* The sequence of the members of S in ascending order: rpcNodes is walked in
\* order and every node that answers getBlockchainInfo is added to the map.
RECURSIVE Ascending(_)
Ascending(S) ==
    IF S = {} THEN <<>>
    ELSE LET m == CHOOSE x \in S : \A y \in S : x <= y
         IN <<m>> \o Ascending(S \ {m})

\* fetchTransactionInfo is called with no client yet: initializeConnections
\* runs; it throws when no node connected, else fetchFromNode is started for
\* every client before Promise.allSettled is awaited.
InitializeConnections ==
    /\ fetch.pc = "idle"
    /\ \E connected \in SUBSET (1..fetch.nodes) :
         LET clients == Ascending(connected) IN
         fetch' = IF clients = <<>>
                  THEN [fetch EXCEPT !.pc = "failed", !.out = FetchError]
                  ELSE [fetch EXCEPT !.pc = "awaiting", !.clients = clients,
                                     !.results = [k \in 1..Len(clients) |-> Pending(clients[k])]]
    /\ UNCHANGED <<oracle, burn, handlers, btc, sapphire>>

\* One fetchFromNode promise settles, in any order: null (an RPC error, or
\* the transaction is not known to the node) or the node's facts.  The order
\* in which the nodes responded is kept in `responded`; Promise.allSettled
\* keeps the results in the order of the promises.
FetchFromNode(k) ==
    /\ fetch.pc = "awaiting"
    /\ k \in 1..Len(fetch.results)
    /\ IsPending(fetch.results[k])
    /\ \E r \in {NoResult(fetch.clients[k])}
                \cup {NodeFacts(tx, fetch.clients[k]) : tx \in NodePayloads} :
         fetch' = [fetch EXCEPT !.results[k] = r, !.responded = Append(@, k)]
    /\ UNCHANGED <<oracle, burn, handlers, btc, sapphire>>

\* A fetcher that resumes as soon as one promise has settled.
FetchSettledOnFirst ==
    /\ fetch.pc = "awaiting"
    /\ \E k \in 1..Len(fetch.results) : ~IsPending(fetch.results[k])
    /\ LET out == FetchTransactionInfo(fetch.results) IN
       fetch' = [fetch EXCEPT !.pc = IF out.ok THEN "done" ELSE "failed", !.out = out]
    /\ UNCHANGED <<oracle, burn, handlers, btc, sapphire>>

\* Promise.allSettled resolves once every promise has settled.
FetchSettled ==
    /\ fetch.pc = "awaiting"
    /\ \A k \in 1..Len(fetch.results) : ~IsPending(fetch.results[k])
    /\ LET out == FetchTransactionInfo(fetch.results) IN
       fetch' = [fetch EXCEPT !.pc = IF out.ok THEN "done" ELSE "failed", !.out = out]
    /\ UNCHANGED <<oracle, burn, handlers, btc, sapphire>>

-----------------------------------------------------------------------------
(* Strings, signatures, the contract's burn record.                        *)

\* A hex string is a sequence of characters; the 64 hex digits of a hash are
\* one token.  txHash.slice(2) drops the first two characters.
Slice2(s) == SubSeq(s, 3, Len(s))

\* `0x${txHash}`
With0x(s) == <<"0", "x">> \o s

\* A message signature is modelled by what verification can recover from it:
\* the address of the signing key and the message signed.  A malformed
\* signature has no signer.
Signature(signer, message) == [signer |-> signer, message |-> message]
MalformedSignature == [signer |-> NULL, message |-> <<>>]

\* bitcoinMessage.verify: throws on a signature it cannot decode, and
\* otherwise tells whether the recovered key is the address's and the
\* message is the one signed.
BitcoinMessageVerify(message, address, signature) ==
    [thrown |-> signature.signer = NULL,
     value |-> /\ signature.signer # NULL
               /\ signature.signer = address
               /\ signature.message = message]

\* Mutation: no try/catch around bitcoinMessage.verify.
VerifySignatureNoCatch(message, signature, signerAddress) ==
    BitcoinMessageVerify(message, signerAddress, signature)

\* verifySignature: `try { return bitcoinMessage.verify(...) }
\* catch (error) { return false }`.
VerifySignature(message, signature, signerAddress) ==
    LET isValid == BitcoinMessageVerify(message, signerAddress, signature)
    IN  IF isValid.thrown THEN [thrown |-> FALSE, value |-> FALSE] ELSE isValid

\* The deposit claimed by TransactionProofSubmitted and the claimant.
DepositTxHash == <<"0", "x", "d1">>
Claimant == "0xClaimant"

\* The payout recorded by an earlier burnSigned, when the record starts in
\* Signed or Validated.
EarlierPayoutHash == <<"0", "x", "p0">>

BurnRecord(status) ==
    [status |-> status, amount |-> 1000, bitcoinAddress |-> DestAddress,
     transactionHash |-> IF status >= Signed THEN EarlierPayoutHash ELSE <<>>]

NotRead == [status |-> -1, amount |-> 0, bitcoinAddress |-> NULL, transactionHash |-> <<>>]

-----------------------------------------------------------------------------
(* Fee and UTXO planning, transaction building (BitcoinActions).           *)

\* The UTXO lists the block-explorer API may return for the tracked address.
Utxo(txid, value) == [txid |-> txid, vout |-> 0, value |-> value]
UtxoLists == {<<Utxo("u1", 1200)>>, <<Utxo("u1", 1200), Utxo("u2", 1500)>>}

\* getNetworkFeeRate on testnet: the fallback rate and the cap.
FeeRates == {2, 5}

RECURSIVE TotalBalance(_)
TotalBalance(utxos) ==
    IF utxos = <<>> THEN 0 ELSE Head(utxos).value + TotalBalance(Tail(utxos))

\* Mutation: the fee does not depend on the fee rate.
FeeWithMarginFlat(feeRate, numInputs, numOutputs) ==
    LET estimatedTxSizeBytes == 10 + (148 * numInputs) + (34 * numOutputs)
    IN ((estimatedTxSizeBytes * 12) + 9) \div 10

\* Mutation: the fee with margin is rounded down.
FeeWithMarginFloor(feeRate, numInputs, numOutputs) ==
    LET estimatedTxSizeBytes == 10 + (148 * numInputs) + (34 * numOutputs)
    IN (estimatedTxSizeBytes * feeRate * 12) \div 10

\* Math.ceil(estimatedTxSizeBytes * feeRateSatPerByte * 1.2).  The product
\* of the two integers is exact; the double 1.2 lies below 1.2 by less than
\* 2^-54 of it, so the product with it, once rounded, is the integer
\* 6n/5 when that is one and keeps its fractional part of 0.2 or more
\* otherwise: Math.ceil yields the ceiling of 12n/10.
FeeWithMargin(feeRate, numInputs, numOutputs) ==
    LET estimatedTxSizeBytes == 10 + (148 * numInputs) + (34 * numOutputs)
    IN ((estimatedTxSizeBytes * feeRate * 12) + 9) \div 10

\* Mutation: a change of 0 is refused too.
CalculateAmountsStrict(utxoAmountSat, amountToSendSat, numInputs, feeRate) ==
    LET fee == FeeWithMargin(feeRate, numInputs, 2)
        change == utxoAmountSat - amountToSendSat - fee
    IN [ok |-> change > 0, amountToSendSat |-> amountToSendSat,
        change |-> change, fee |-> fee]

\* calculateAmounts: ok = FALSE stands for the thrown "Not enough funds".
CalculateAmounts(utxoAmountSat, amountToSendSat, numInputs, feeRate) ==
    LET fee == FeeWithMargin(feeRate, numInputs, 2)
        change == utxoAmountSat - amountToSendSat - fee
    IN [ok |-> change >= 0, amountToSendSat |-> amountToSendSat,
        change |-> change, fee |-> fee]

NoTx == [inputs |-> <<>>, outputs |-> <<>>, txHash |-> <<>>]

\* Mutation: the two outputs carry each other's value.
PlanTransactionSwapped(destinationAddress, amounts, utxos, id) ==
    [inputs |-> utxos,
     outputs |-> <<[address |-> destinationAddress, value |-> amounts.change],
                   [address |-> TrackedAddress, value |-> amounts.amountToSendSat]>>,
     txHash |-> <<"p", id>>]

\* Mutation: the first UTXO becomes an input twice.
PlanTransactionRepeatsInput(destinationAddress, amounts, utxos, id) ==
    [inputs |-> utxos \o SubSeq(utxos, 1, 1),
     outputs |-> <<[address |-> destinationAddress, value |-> amounts.amountToSendSat],
                   [address |-> TrackedAddress, value |-> amounts.change]>>,
     txHash |-> <<"p", id>>]

\* Mutation: no change output is added for a change of 0.
PlanTransactionDropsZeroChange(destinationAddress, amounts, utxos, id) ==
    [inputs |-> utxos,
     outputs |-> <<[address |-> destinationAddress, value |-> amounts.amountToSendSat]>>
                 \o (IF amounts.change = 0 THEN <<>>
                     ELSE <<[address |-> TrackedAddress, value |-> amounts.change]>>),
     txHash |-> <<"p", id>>]

\* The PSBT of generateAndSignTransaction: one input per UTXO, then the
\* destination output and the change output.  The transaction id depends on
\* the signatures, so every build has an id of its own.
PlanTransaction(destinationAddress, amounts, utxos, id) ==
    [inputs |-> utxos,
     outputs |-> <<[address |-> destinationAddress, value |-> amounts.amountToSendSat],
                   [address |-> TrackedAddress, value |-> amounts.change]>>,
     txHash |-> <<"p", id>>]

-----------------------------------------------------------------------------
(* The oracle and its handlers (Spec).                                     *)

EventNames == {"TransactionProofSubmitted", "BurnGenerateTransaction", "BurnValidateTransaction"}

\* One external call of a handler, in the order made.
Call(op, address, amount, hash) ==
    [op |-> op, address |-> address, amount |-> amount, hash |-> hash]

Handler(event, pc) ==
    [event |-> event, pc |-> pc, burnInfo |-> NotRead, txInfo |-> FetchError,
     isValid |-> FALSE, tx |-> NoTx, signed |-> 0, confirmed |-> FALSE, sent |-> FALSE,
     caught |-> FALSE, thrown |-> FALSE, log |-> <<>>]

\* `catch (error) { console.error(...) }`: the handler ends, the error is
\* logged and goes no further.
\* Mutation: no catch block, the handler's promise rejects.
Uncaught(h) == [h EXCEPT !.pc = "done", !.thrown = TRUE]

Caught(h) == [h EXCEPT !.pc = "done", !.caught = TRUE]

Done(h) == [h EXCEPT !.pc = "done"]

Logged(h, call) == [h EXCEPT !.log = Append(@, call)]

RECURSIVE CountOp(_, _)
CountOp(log, op) ==
    IF log = <<>> THEN 0
    ELSE (IF Head(log).op = op THEN 1 ELSE 0) + CountOp(Tail(log), op)

OracleConstructed ==
    [isRunning |-> FALSE, listeners |-> {}, exited |-> FALSE]

\* run(), called once on the constructed oracle: the connection is
\* initialised and the three listeners registered; an error before that is
\* rethrown and leaves the oracle stopped.
Run ==
    /\ ~oracle.isRunning
    /\ ~oracle.exited
    /\ oracle.listeners = {}
    /\ \/ oracle' = [oracle EXCEPT !.isRunning = TRUE, !.listeners = EventNames]
       \/ oracle' = [oracle EXCEPT !.isRunning = FALSE, !.exited = TRUE]
    /\ UNCHANGED <<burn, handlers, fetch, btc, sapphire>>

\* contract.off(eventName, listener): the subscription of `listener` to the
\* contract event `eventName` is dropped; a name that is no event of the
\* contract, or a listener that was not subscribed, removes nothing.
ContractOff(subscribed, eventName, listener) ==
    {s \in subscribed : ~(s = eventName /\ listener = "handle" \o s)}

\* stop(): contract.off(key, eventListeners[key]) for every key of
\* eventListeners, then isRunning = false.  setupEventListeners filled the
\* map under the keys transactionProofSubmitted, burnGenerateTransaction and
\* burnValidateTransaction with what contract.on returned.
Stop ==
    LET keys == <<"transactionProofSubmitted", "burnGenerateTransaction",
                  "burnValidateTransaction">>
        eventListeners == [k \in 1..Len(keys) |-> "contract"]
        RECURSIVE ForEach(_, _)
        ForEach(subscribed, k) ==
            IF k > Len(keys) THEN subscribed
            ELSE ForEach(ContractOff(subscribed, keys[k], eventListeners[k]), k + 1)
    IN  /\ oracle.isRunning
        /\ oracle' = [oracle EXCEPT !.isRunning = FALSE,
                                    !.listeners = ForEach(@, 1)]
        /\ UNCHANGED <<burn, handlers, fetch, btc, sapphire>>

\* while (this.isRunning) await new Promise(r => setTimeout(r, poolInterval)):
\* the loop of run() wakes, finds isRunning false and run() returns.
RunReturns ==
    /\ ~oracle.isRunning
    /\ oracle.listeners # {}
    /\ ~oracle.exited
    /\ oracle' = [oracle EXCEPT !.exited = TRUE]
    /\ UNCHANGED <<burn, handlers, fetch, btc, sapphire>>


\* What the RPC nodes may answer for a transaction id.  The deposit has one
\* or two owners of its inputs and pays the tracked address or not; a payout
\* spends the tracked address; an id no node knows yields null everywhere.
DepositPayloads ==
    [vin : {<<AddrA>>, <<AddrB>>, <<AddrA, AddrB>>, <<NULL>>},
     vout : {<<[address |-> TrackedAddress, value |-> 5],
                [address |-> AddrA, value |-> 7]>>},
     confirmations : {6}]
    \cup {[vin |-> <<AddrA>>,
           vout |-> <<[address |-> DestAddress, value |-> 5]>>,
           confirmations |-> 6]}

PayoutPayloads ==
    [vin : {<<TrackedAddress>>},
     vout : {<<[address |-> DestAddress, value |-> 1000]>>},
     confirmations : {5, 6, 7}]

IsPayoutId(txid) == Len(txid) > 0 /\ txid[1] \in {"p", "p0"}

NodeAnswers(txid, node) ==
    {NoResult(node)} \cup
    {NodeFacts(tx, node) :
        tx \in IF txid = Slice2(DepositTxHash) THEN DepositPayloads
               ELSE IF IsPayoutId(txid) THEN PayoutPayloads
               ELSE {}}

\* The possible outcomes of bitcoinConnection.fetchTransactionInfo(txid)
\* when one node is connected.
FetchOutcomes(txid) ==
    {FetchTransactionInfo(<<r1>>) : r1 \in NodeAnswers(txid, 1)}

SetHandler(i, h) == handlers' = [handlers EXCEPT ![i] = h]

At(i, name, pc) ==
    /\ i \in 1..Len(handlers)
    /\ handlers[i].event.name = name
    /\ handlers[i].pc = pc

\* contract.on's callback is invoked for an event while the process lives:
\* a rejection nobody handles ends it.
Listening(name) ==
    /\ name \in oracle.listeners
    /\ \A i \in 1..Len(handlers) : ~handlers[i].thrown
    /\ Len(handlers) < MaxEvents

(* ---- TransactionProofSubmitted ---------------------------------------- *)

ProofSignatures ==
    {Signature(AddrA, DepositTxHash \o <<Claimant>>),
     Signature(AddrA, DepositTxHash \o <<"0xOther">>),
     MalformedSignature}

EmitTransactionProofSubmitted ==
    /\ Listening("TransactionProofSubmitted")
    /\ \E signature \in ProofSignatures :
         handlers' = Append(handlers,
             Handler([name |-> "TransactionProofSubmitted", txHash |-> DepositTxHash,
                      signature |-> signature, ethereumAddress |-> Claimant], "fetch"))
    /\ UNCHANGED <<oracle, burn, fetch, btc, sapphire>>

\* Mutation: the mint is sent with the hash that was looked up (without 0x).
MintCallSliced(h) ==
    Call("mint", h.event.ethereumAddress, h.txInfo.amount, Slice2(h.event.txHash))

\* contract.mint(ethereumAddress, amount, txHash)
MintCall(h) ==
    Call("mint", h.event.ethereumAddress, h.txInfo.amount, h.event.txHash)

\* Mutation: the signature is checked whenever a sender was resolved, against
\* the first of them.
ProofIsValidAnySender(h, txInfo) ==
    /\ Len(txInfo.sender) >= 1
    /\ VerifySignature(h.event.txHash \o <<h.event.ethereumAddress>>,
                       h.event.signature, txInfo.sender[1]).value

\* if (txInfo.sender && txInfo.sender.length == 1) isValid = verifySignature(
\*     txHash + ethereumAddress, signature, txInfo.sender[0])
ProofIsValid(h, txInfo) ==
    /\ Len(txInfo.sender) = 1
    /\ VerifySignature(h.event.txHash \o <<h.event.ethereumAddress>>,
                       h.event.signature, txInfo.sender[1]).value

\* An error thrown by verifySignature would leave the handler through its
\* catch block.
ProofCheckThrows(h, txInfo) ==
    /\ Len(txInfo.sender) = 1
    /\ VerifySignature(h.event.txHash \o <<h.event.ethereumAddress>>,
                       h.event.signature, txInfo.sender[1]).thrown

\* handleTransactionProofSubmitted resumes from fetchTransactionInfo.
ProofFetched(i) ==
    /\ At(i, "TransactionProofSubmitted", "fetch")
    /\ \E out \in FetchOutcomes(Slice2(handlers[i].event.txHash)) :
         LET h == handlers[i]
             got == [h EXCEPT !.txInfo = out, !.isValid = ProofIsValid(h, out)]
         IN SetHandler(i,
              IF ~out.ok THEN Caught(h)
              ELSE IF ProofCheckThrows(h, out) THEN Caught([h EXCEPT !.txInfo = out])
              ELSE IF got.isValid
                   THEN Logged([got EXCEPT !.pc = "mint"], MintCall(got))
                   ELSE Done(got))
    /\ UNCHANGED <<oracle, burn, fetch, btc, sapphire>>

\* processValidTransactionProof: contract.mint returns the sent transaction
\* or throws; mintTx.wait() returns or throws; both inside its own try/catch.
ProofMintSent(i) ==
    /\ At(i, "TransactionProofSubmitted", "mint")
    /\ \/ SetHandler(i, [handlers[i] EXCEPT !.pc = "mintWait"])
       \/ SetHandler(i, Caught(handlers[i]))
    /\ UNCHANGED <<oracle, burn, fetch, btc, sapphire>>

ProofMintWaited(i) ==
    /\ At(i, "TransactionProofSubmitted", "mintWait")
    /\ \/ SetHandler(i, Done(handlers[i]))
       \/ SetHandler(i, Caught(handlers[i]))
    /\ UNCHANGED <<oracle, burn, fetch, btc, sapphire>>

(* ---- BurnGenerateTransaction ------------------------------------------ *)

BurnEvent(name) ==
    [name |-> name, txHash |-> <<>>, signature |-> MalformedSignature, ethereumAddress |-> NULL]

EmitBurnGenerateTransaction ==
    /\ Listening("BurnGenerateTransaction")
    /\ handlers' = Append(handlers, Handler(BurnEvent("BurnGenerateTransaction"), "burnData"))
    /\ UNCHANGED <<oracle, burn, fetch, btc, sapphire>>

\* Mutation: every record is processed, whatever its status.
ShouldGenerateAlways(burnInfo) == TRUE

\* if (burnInfo.status == 1)
ShouldGenerate(burnInfo) == burnInfo.status = GenerateRequested

\* handleBurnGenerateTransaction resumes from contract.burnData(burnId).
GenerateBurnDataRead(i) ==
    /\ At(i, "BurnGenerateTransaction", "burnData")
    /\ LET h == handlers[i]
           read == [h EXCEPT !.burnInfo = burn]
       IN \/ SetHandler(i, IF ShouldGenerate(burn)
                           THEN [read EXCEPT !.pc = "utxos"]
                           ELSE Done(read))
          \/ SetHandler(i, Caught(h))
    /\ UNCHANGED <<oracle, burn, fetch, btc, sapphire>>

\* generateAndSignTransaction up to the two addOutput calls: getAllUtxos,
\* calculateAmounts (with the fee rate), fetchRawTx for every input.  Any of
\* them may throw; processBurnGeneration catches.
GeneratePlanned(i) ==
    /\ At(i, "BurnGenerateTransaction", "utxos")
    /\ LET h == handlers[i] IN
       \/ \E utxos \in UtxoLists, feeRate \in FeeRates :
            LET amounts == CalculateAmounts(TotalBalance(utxos), h.burnInfo.amount,
                                            Len(utxos), feeRate)
            IN SetHandler(i,
                 IF amounts.ok
                 THEN [h EXCEPT !.pc = "login",
                                !.tx = PlanTransaction(h.burnInfo.bitcoinAddress, amounts, utxos, i)]
                 ELSE Caught(h))
       \/ SetHandler(i, Caught(h))
    /\ UNCHANGED <<oracle, burn, fetch, btc, sapphire>>

\* siweLogin: the message is prepared (contract.domain, getNetwork,
\* signMessage) and contract.login called; then contract.publicKey().
GenerateLoggedIn(i) ==
    /\ At(i, "BurnGenerateTransaction", "login")
    /\ LET h == handlers[i]
           called == Logged(h, Call("login", NULL, 0, <<>>))
       IN \/ SetHandler(i, [called EXCEPT !.pc = "sign"])
          \/ SetHandler(i, Caught(called))
          \/ SetHandler(i, Caught(h))
    /\ UNCHANGED <<oracle, burn, fetch, btc, sapphire>>

\* Mutation: the raw transaction is broadcast as soon as it is extracted.
AfterSigningBroadcastFirst(h) ==
    Logged([h EXCEPT !.pc = "broadcastEarly"],
           Call("sendRawTransaction", h.tx.outputs[1].address, h.tx.outputs[1].value, h.tx.txHash))

\* All inputs signed: the transaction is extracted and
\* contract.burnSigned(burnId, rawTx, `0x${txHash}`) called.
AfterSigning(h) ==
    Logged([h EXCEPT !.pc = "burnSigned"],
           Call("burnSigned", NULL, 0, With0x(h.tx.txHash)))

\* One round of the signing loop: contract.sign(sighash, token), DER
\* encoding, updateInput, finalizeInput.
GenerateSigned(i) ==
    /\ At(i, "BurnGenerateTransaction", "sign")
    /\ LET h == handlers[i]
           called == Logged(h, Call("sign", NULL, h.signed, <<>>))
           signed == [called EXCEPT !.signed = @ + 1]
       IN \/ SetHandler(i, IF signed.signed = Len(h.tx.inputs)
                           THEN AfterSigning(signed)
                           ELSE signed)
          \/ SetHandler(i, Caught(called))
    /\ UNCHANGED <<oracle, burn, fetch, btc, sapphire>>

\* The contract's burnSigned: it records the transaction of a burn that is
\* waiting for generation and rejects any other (BurnTransactionNotGenerated).
ContractBurnSignedAccepts(record) == record.status = GenerateRequested

ContractBurnSigned(record, hash) ==
    [record EXCEPT !.status = Signed, !.transactionHash = hash]

\* Mutation: an error of contract.burnSigned is swallowed and the handler
\* goes on.
GenerateBurnSignedSentOrNot(i) ==
    /\ At(i, "BurnGenerateTransaction", "burnSigned")
    /\ LET h == handlers[i] IN
       \/ /\ ContractBurnSignedAccepts(burn)
          /\ burn' = ContractBurnSigned(burn, With0x(h.tx.txHash))
          /\ SetHandler(i, [h EXCEPT !.pc = "burnSignedWait"])
       \/ /\ UNCHANGED burn
          /\ SetHandler(i, [h EXCEPT !.pc = "burnSignedWait"])
    /\ UNCHANGED <<oracle, fetch, btc, sapphire>>

\* contract.burnSigned resolves or throws (the call reverts, or the RPC fails).
GenerateBurnSignedSent(i) ==
    /\ At(i, "BurnGenerateTransaction", "burnSigned")
    /\ LET h == handlers[i] IN
       \/ /\ ContractBurnSignedAccepts(burn)
          /\ burn' = ContractBurnSigned(burn, With0x(h.tx.txHash))
          /\ SetHandler(i, [h EXCEPT !.pc = "burnSignedWait"])
       \/ /\ UNCHANGED burn
          /\ SetHandler(i, Caught(h))
    /\ UNCHANGED <<oracle, fetch, btc, sapphire>>

\* updateTx.wait() resolves, then sendRawTransaction(rawTxHex) is called;
\* or wait() throws.
GenerateBurnSignedWaited(i) ==
    /\ At(i, "BurnGenerateTransaction", "burnSignedWait")
    /\ LET h == handlers[i] IN
       \/ SetHandler(i, Logged([h EXCEPT !.pc = "broadcast", !.confirmed = TRUE],
                        Call("sendRawTransaction", h.tx.outputs[1].address,
                             h.tx.outputs[1].value, h.tx.txHash)))
       \/ SetHandler(i, Caught(h))
    /\ UNCHANGED <<oracle, burn, fetch, btc, sapphire>>

\* sendRawTransaction resolves with the txid or throws.
GenerateBroadcast(i) ==
    /\ At(i, "BurnGenerateTransaction", "broadcast")
    /\ \/ SetHandler(i, Done([handlers[i] EXCEPT !.sent = TRUE]))
       \/ SetHandler(i, Caught(handlers[i]))
    /\ UNCHANGED <<oracle, burn, fetch, btc, sapphire>>

(* ---- BurnValidateTransaction ------------------------------------------ *)

EmitBurnValidateTransaction ==
    /\ Listening("BurnValidateTransaction")
    /\ handlers' = Append(handlers, Handler(BurnEvent("BurnValidateTransaction"), "burnData"))
    /\ UNCHANGED <<oracle, burn, fetch, btc, sapphire>>

\* Mutation: the check accepts one confirmation less.
EnoughConfirmationsOffByOne(txInfo) == txInfo.confirmations >= MinConfirmations - 1

\* if (txInfo.confirmations >= 6)
EnoughConfirmations(txInfo) == txInfo.confirmations >= MinConfirmations

\* handleBurnValidateTransaction resumes from contract.burnData(burnId).
ValidateBurnDataRead(i) ==
    /\ At(i, "BurnValidateTransaction", "burnData")
    /\ LET h == handlers[i]
           read == [h EXCEPT !.burnInfo = burn]
       IN \/ SetHandler(i, IF burn.status = Signed
                           THEN [read EXCEPT !.pc = "fetch"]
                           ELSE Done(read))
          \/ SetHandler(i, Caught(h))
    /\ UNCHANGED <<oracle, burn, fetch, btc, sapphire>>

\* validateBurnTransaction resumes from fetchTransactionInfo.
ValidateFetched(i) ==
    /\ At(i, "BurnValidateTransaction", "fetch")
    /\ \E out \in FetchOutcomes(Slice2(handlers[i].burnInfo.transactionHash)) :
         LET h == handlers[i]
             got == [h EXCEPT !.txInfo = out]
         IN SetHandler(i,
              IF ~out.ok THEN Caught(h)
              ELSE IF EnoughConfirmations(out)
                   THEN Logged([got EXCEPT !.pc = "validateBurn"],
                               Call("validateBurn", NULL, 0, <<>>))
                   ELSE Done(got))
    /\ UNCHANGED <<oracle, burn, fetch, btc, sapphire>>

\* The contract's validateBurn: Signed becomes Validated, anything else is
\* rejected (BurnTransactionNotSigned).
ContractValidateBurnAccepts(record) == record.status = Signed

ContractValidateBurn(record) == [record EXCEPT !.status = Validated]

ValidateSent(i) ==
    /\ At(i, "BurnValidateTransaction", "validateBurn")
    /\ LET h == handlers[i] IN
       \/ /\ ContractValidateBurnAccepts(burn)
          /\ burn' = ContractValidateBurn(burn)
          /\ SetHandler(i, [h EXCEPT !.pc = "validateWait"])
       \/ /\ UNCHANGED burn
          /\ SetHandler(i, Caught(h))
    /\ UNCHANGED <<oracle, fetch, btc, sapphire>>

ValidateWaited(i) ==
    /\ At(i, "BurnValidateTransaction", "validateWait")
    /\ \/ SetHandler(i, Done(handlers[i]))
       \/ SetHandler(i, Caught(handlers[i]))
    /\ UNCHANGED <<oracle, burn, fetch, btc, sapphire>>

-----------------------------------------------------------------------------
(* BitcoinActions.fetchTransactionInfo: the block-explorer APIs tried in   *)
(* turn (SpecApi).                                                         *)

\* No BitcoinActions call is under way.
NoCall == [pc |-> "none"]

\* The height of the block that holds the transaction looked up, and the tip
\* heights an API may report: APIs follow the chain at their own pace.
TxBlockHeight == 100
TipViews == (TxBlockHeight - 2)..(TxBlockHeight + 1)

\* What the API standing at a given tip may answer to GET /tx/<hash>: the
\* transaction unconfirmed (no status.block_height, 0 here: both are falsy)
\* or, when the API has seen its block, included at TxBlockHeight.
ExplorerPayloads(tip) ==
    {[vin |-> TrueVin, vout |-> vout, block_height |-> h] :
        vout \in VoutViews,
        h \in {0} \cup (IF tip >= TxBlockHeight THEN {TxBlockHeight} ELSE {})}

NoPayload == [vin |-> <<>>, vout |-> <<>>, block_height |-> 0]

\* The record fetchTransactionInfo returns for the payload `tx` of the API
\* `name`.
ApiFacts(tx, confirmations, name) ==
    [ok |-> TRUE,
     amount |-> IF IsTrackedAddressReceiver(tx.vout) THEN TotalAmount(tx.vout) ELSE 0,
     sender |-> ExtractSenders(tx.vin),
     receiver |-> IF IsTrackedAddressReceiver(tx.vout) THEN TrackedAddress ELSE NULL,
     confirmations |-> confirmations,
     provider |-> name,
     blockHeight |-> tx.block_height]

ApiError ==
    [ok |-> FALSE, amount |-> 0, sender |-> <<>>, receiver |-> NULL,
     confirmations |-> 0, provider |-> 0, blockHeight |-> 0]

\* (await this.getCurrentBlockHeight()) - tx.status.block_height + 1
ConfirmationsFromTip(currentBlockHeight, block_height) ==
    currentBlockHeight - block_height + 1

\* Mutation: the API configurations are put in the reverse of the order
\* given.
SortByPriorityReversed(configs) ==
    [k \in 1..Len(configs) |-> configs[Len(configs) + 1 - k]]

\* Mutation: the API configurations are left in the order given.
SortByPriorityNot(configs) == configs

\* this.apiConfigs.sort((a, b) => a.priority - b.priority): a stable sort.
RECURSIVE SortByPriority(_)
SortByPriority(configs) ==
    IF configs = <<>> THEN <<>>
    ELSE LET i == CHOOSE k \in 1..Len(configs) :
                    /\ \A m \in 1..Len(configs) : configs[k].priority <= configs[m].priority
                    /\ \A m \in 1..(k - 1) : configs[m].priority > configs[k].priority
         IN <<configs[i]>>
            \o SortByPriority(SubSeq(configs, 1, i - 1) \o SubSeq(configs, i + 1, Len(configs)))

\* fetchTransactionInfo is entered on a BitcoinActions whose network sorted
\* the API configurations when it was constructed: the loop stands at the
\* first API.  `failed` lists the priorities of the APIs whose round of the
\* loop ended in the catch block.
ApiIdle(configs) ==
    LET apiConfigs == SortByPriority(configs)
    IN  [pc |-> "tx", configured |-> configs, apiConfigs |-> apiConfigs,
         tips |-> [k \in 1..Len(configs) |-> apiConfigs[k].tip],
         i |-> 1, j |-> 0, tx |-> NoPayload, tipFrom |-> 0, failed |-> <<>>,
         out |-> ApiError]

\* The catch of the loop over the APIs: on to the next API, and past the
\* last one the error is thrown.
CatchAndContinue(b) ==
    LET caught == [b EXCEPT !.failed = Append(@, b.apiConfigs[b.i].priority)]
    IN  IF b.i = Len(b.tips)
        THEN [caught EXCEPT !.pc = "failed", !.out = ApiError]
        ELSE [caught EXCEPT !.pc = "tx", !.i = @ + 1, !.j = 0, !.tx = NoPayload]

\* axios.get(`${config.url}/tx/${txHash}`) fails or answers without data.
ApiTxFailed ==
    /\ btc.pc = "tx"
    /\ btc' = CatchAndContinue(btc)
    /\ UNCHANGED <<oracle, burn, handlers, fetch, sapphire>>

\* The API answers with the transaction: an unconfirmed one is returned
\* with 0 confirmations, for an included one the tip height is asked for.
ApiTxReceived ==
    /\ btc.pc = "tx"
    /\ \E tx \in ExplorerPayloads(btc.tips[btc.i]) :
         btc' = IF tx.block_height # 0
                THEN [btc EXCEPT !.pc = "tip", !.tx = tx, !.j = 1]
                ELSE [btc EXCEPT !.pc = "done", !.tx = tx,
                                 !.out = ApiFacts(tx, 0, btc.i)]
    /\ UNCHANGED <<oracle, burn, handlers, fetch, sapphire>>

\* getCurrentBlockHeight: GET /blocks/tip/height fails at API j; past the
\* last API it throws, which the catch of the loop over the APIs receives.
ApiTipFailed ==
    /\ btc.pc = "tip"
    /\ btc' = IF btc.j = Len(btc.tips)
              THEN CatchAndContinue(btc)
              ELSE [btc EXCEPT !.j = @ + 1]
    /\ UNCHANGED <<oracle, burn, handlers, fetch, sapphire>>

\* getCurrentBlockHeight returns the tip height of the first API that
\* answers, whichever API supplied the transaction.
ApiTipReceived ==
    /\ btc.pc = "tip"
    /\ LET confirmations == ConfirmationsFromTip(btc.tips[btc.j], btc.tx.block_height) IN
       btc' = [btc EXCEPT !.pc = "done", !.tipFrom = btc.j,
                          !.out = ApiFacts(btc.tx, confirmations, btc.i)]
    /\ UNCHANGED <<oracle, burn, handlers, fetch, sapphire>>

-----------------------------------------------------------------------------
(* Double-precision arithmetic, as far as the fee rate conversion needs it. *)

\* A natural number of any size as its digits in base 2^15, least
\* significant first.
RECURSIVE Digits(_)
Digits(n) == IF n = 0 THEN <<>> ELSE <<n % 32768>> \o Digits(n \div 32768)

RECURSIVE Trim(_)
Trim(l) ==
    IF l = <<>> THEN <<>>
    ELSE IF l[Len(l)] = 0 THEN Trim(SubSeq(l, 1, Len(l) - 1)) ELSE l

\* l * m + carry, for m and carry below 2^16.
RECURSIVE MulSmallCarry(_, _, _)
MulSmallCarry(l, m, carry) ==
    IF l = <<>> THEN Digits(carry)
    ELSE LET t == Head(l) * m + carry
         IN <<t % 32768>> \o MulSmallCarry(Tail(l), m, t \div 32768)

\* Quotient and remainder of l by d < 2^16: long division from the most
\* significant digit l[k] down, starting with k = Len(l), rem = 0, q = <<>>.
RECURSIVE DivSmallFrom(_, _, _, _, _)
DivSmallFrom(l, d, k, rem, q) ==
    IF k = 0 THEN [q |-> Trim(q), r |-> rem]
    ELSE LET cur == 32768 * rem + l[k]
         IN DivSmallFrom(l, d, k - 1, cur % d, <<cur \div d>> \o q)

\* floor(l / 2^k), and whether the division left a remainder.
DivPow2(l, k) ==
    LET whole == k \div 15
        high == SubSeq(l, whole + 1, Len(l))
        qr == DivSmallFrom(high, 2 ^ (k % 15), Len(high), 0, <<>>)
    IN [q |-> qr.q, inexact |-> qr.r # 0 \/ \E i \in 1..whole : l[i] # 0]

\* The double nearest to (l + f) * 2^e, ties to even, where l is a natural
\* number and f a fraction below 1 that is non-zero exactly when `inexact`:
\* a double is a significand m of at most 53 bits and an exponent, standing
\* for m * 2^e.
RoundToDouble(l0, inexact, e) ==
    LET RECURSIVE BitLengthOfDigit(_)
        BitLengthOfDigit(n) == IF n = 0 THEN 0 ELSE 1 + BitLengthOfDigit(n \div 2)
        l == Trim(l0)
        bitLength ==
            IF l = <<>> THEN 0 ELSE 15 * (Len(l) - 1) + BitLengthOfDigit(l[Len(l)])
        k == bitLength - 53
    IN IF k <= 0 THEN [m |-> l, e |-> e]
       ELSE LET withGuard == DivPow2(l, k - 1)
                halves == DivSmallFrom(withGuard.q, 2, Len(withGuard.q), 0, <<>>)
                sticky == inexact \/ withGuard.inexact
                odd == halves.q # <<>> /\ halves.q[1] % 2 = 1
                up == halves.r = 1 /\ (sticky \/ odd)
            IN [m |-> IF up THEN MulSmallCarry(halves.q, 1, 1) ELSE halves.q, e |-> e + k]

\* The number JSON.parse yields for the decimal n / 10^digits (n >= 1): n
\* is shifted left by 105 bits and divided by 10 `digits` times, so that the
\* quotient has more than 53 bits before it is rounded.
DoubleOfDecimal(n, digits) ==
    LET RECURSIVE DivPow10(_, _, _)
        DivPow10(l, k, inexact) ==
            IF k = 0 THEN [q |-> l, inexact |-> inexact]
            ELSE LET qr == DivSmallFrom(l, 10, Len(l), 0, <<>>)
                 IN DivPow10(qr.q, k - 1, inexact \/ qr.r # 0)
        quotient == DivPow10([i \in 1..7 |-> 0] \o Digits(n), digits, FALSE)
    IN RoundToDouble(quotient.q, quotient.inexact, -105)

\* Math.ceil of a positive double.
MathCeil(x) ==
    LET RECURSIVE ToInt(_)
        ToInt(l) == IF l = <<>> THEN 0 ELSE Head(l) + 32768 * ToInt(Tail(l))
    IN  IF x.e >= 0
        THEN ToInt(MulSmallCarry([i \in 1..(x.e \div 15) |-> 0] \o x.m, 2 ^ (x.e % 15), 0))
        ELSE LET parts == DivPow2(x.m, -x.e)
             IN ToInt(parts.q) + (IF parts.inexact THEN 1 ELSE 0)

\* Math.floor of a positive double.
MathFloor(x) ==
    LET RECURSIVE ToInt(_)
        ToInt(l) == IF l = <<>> THEN 0 ELSE Head(l) + 32768 * ToInt(Tail(l))
    IN  IF x.e >= 0
        THEN ToInt(MulSmallCarry([i \in 1..(x.e \div 15) |-> 0] \o x.m, 2 ^ (x.e % 15), 0))
        ELSE ToInt(DivPow2(x.m, -x.e).q)

-----------------------------------------------------------------------------
(* BitcoinNetwork.getNetworkFeeRate and one generateAndSignTransaction     *)
(* call (SpecPlan).                                                        *)

\* What estimatesmartfee of a Bitcoin Core node may answer: a fee rate,
\* printed in BTC per kilobyte with 8 decimals and given here by its
\* satoshis per kilobyte; an answer without feerate; or an error.
EstimatesSatPerKb == {1000, 1001, 2500, 5000, 12000}

Estimates ==
    {[kind |-> "feerate", satPerKb |-> e] : e \in EstimatesSatPerKb}
    \cup {[kind |-> "none", satPerKb |-> 0], [kind |-> "error", satPerKb |-> 0]}

\* The answers of any RPC provider: also a feerate of 0, a smallest one, and
\* the negative rates that stand for "no estimate" (-1 BTC/kB, -0.000001).
EstimatesOfAnyProvider ==
    Estimates \cup {[kind |-> "feerate", satPerKb |-> e] : e \in {-100000000, -100, 0, 1}}

\* Math.ceil(feeInfo.feerate * 100000000 / 1000), in doubles from left to
\* right: the product and the quotient are each rounded to a double.  The
\* rounding of a negative rate mirrors that of its magnitude, and Math.ceil
\* of a negative double is minus the floor of its magnitude.
SatPerByte(satPerKb) ==
    LET RECURSIVE TimesPow10(_, _)
        TimesPow10(l, k) ==
            IF k = 0 THEN l ELSE TimesPow10(MulSmallCarry(l, 10, 0), k - 1)
        feerate == DoubleOfDecimal(IF satPerKb < 0 THEN -satPerKb ELSE satPerKb, 8)
        product == RoundToDouble(TimesPow10(feerate.m, 8), FALSE, feerate.e)
        shifted == [i \in 1..5 |-> 0] \o product.m
        qr == DivSmallFrom(shifted, 1000, Len(shifted), 0, <<>>)
        magnitude == RoundToDouble(qr.q, qr.r # 0, product.e - 75)
    IN  IF satPerKb >= 0 THEN MathCeil(magnitude) ELSE -MathFloor(magnitude)

\* if (feeInfo.feerate) holds for every feerate but 0 and a missing one;
\* Math.min(feeRate, 5) on testnet; the defaults when there is no fee rate.
GetNetworkFeeRate(network, estimate) ==
    IF estimate.kind = "feerate" /\ estimate.satPerKb # 0
    THEN LET feeRate == SatPerByte(estimate.satPerKb)
         IN IF network = "testnet" THEN (IF feeRate <= 5 THEN feeRate ELSE 5)
            ELSE feeRate
    ELSE IF network = "testnet" THEN 2 ELSE 5

\* The UTXOs of the tracked address and the amounts asked for: amounts that
\* leave change, exactly none, or too little.
PlanUtxoLists ==
    {<<Utxo("u1", 100000)>>, <<Utxo("u1", 60000), Utxo("u2", 40000)>>}

PlanAmounts == {50000, 98644, 99457, 99458, 100000, 100001}

\* What an API answers to GET /address/<tracked>/utxo: an error, an empty
\* list or a list of UTXOs.  An API configuration is given by its priority
\* and this answer; the configured list holds one or two of them, in any
\* order.
UtxoAnswers ==
    {[ok |-> FALSE, data |-> <<>>], [ok |-> TRUE, data |-> <<>>]}
    \cup {[ok |-> TRUE, data |-> utxos] : utxos \in PlanUtxoLists}

ApiConfigLists ==
    {<<[priority |-> 1, answer |-> a]>> : a \in UtxoAnswers}
    \cup {<<[priority |-> p, answer |-> a], [priority |-> 3 - p, answer |-> b]>> :
             p \in 1..2, a \in UtxoAnswers, b \in UtxoAnswers}

\* generateAndSignTransaction is entered on a BitcoinActions whose network
\* sorted the API configurations when it was constructed; `previous` are the
\* UTXOs the call before this one worked with.
PlanIdle(network, configs, amountSat, previous) ==
    [pc |-> "utxos", network |-> network, apiConfigs |-> SortByPriority(configs),
     configured |-> configs, api |-> 1, previous |-> previous,
     utxos |-> <<>>, amountSat |-> amountSat, estimates |-> Estimates,
     estimate |-> [kind |-> "unasked", satPerKb |-> 0], feeRate |-> 0,
     amounts |-> [ok |-> FALSE, amountToSendSat |-> 0, change |-> 0, fee |-> 0],
     psbt |-> NoTx, token |-> 0, i |-> 0, log |-> <<>>,
     tx |-> NoTx,
     error |-> NULL]

\* Mutation: a failing build hands out the transaction as far as it got.
ThrownWithPsbt(b, error) == [b EXCEPT !.pc = "failed", !.error = error, !.tx = b.psbt]

\* An awaited call throws and nothing in generateAndSignTransaction catches.
Thrown(b, error) == [b EXCEPT !.pc = "failed", !.error = error]

\* getAllUtxos, one API after the other: an error or an empty list is
\* caught and the next API asked; the first list that is not empty is
\* returned; past the last API the error is thrown.
BuildGetAllUtxos ==
    /\ btc.pc = "utxos"
    /\ LET response == btc.apiConfigs[btc.api].answer IN
       btc' = IF response.ok /\ response.data # <<>>
              THEN [btc EXCEPT !.pc = "feeRate", !.utxos = response.data]
              ELSE IF btc.api = Len(btc.apiConfigs)
                   THEN Thrown(btc, "Failed to fetch UTXOs")
                   ELSE [btc EXCEPT !.api = @ + 1]
    /\ UNCHANGED <<oracle, burn, handlers, fetch, sapphire>>

\* calculateAmounts awaits getNetworkFeeRate, which throws only when no
\* node can be connected.
BuildGetNetworkFeeRate ==
    /\ btc.pc = "feeRate"
    /\ \/ \E estimate \in btc.estimates :
            btc' = [btc EXCEPT !.pc = "amounts", !.estimate = estimate,
                               !.feeRate = GetNetworkFeeRate(btc.network, estimate)]
       \/ btc' = Thrown(btc, "Failed to connect")
    /\ UNCHANGED <<oracle, burn, handlers, fetch, sapphire>>

\* The rest of calculateAmounts.
BuildCalculateAmounts ==
    /\ btc.pc = "amounts"
    /\ LET amounts == CalculateAmounts(TotalBalance(btc.utxos), btc.amountSat,
                                       Len(btc.utxos), btc.feeRate)
       IN btc' = IF amounts.ok
                 THEN [btc EXCEPT !.pc = "build", !.amounts = amounts]
                 ELSE [Thrown(btc, "Not enough funds") EXCEPT !.amounts = amounts]
    /\ UNCHANGED <<oracle, burn, handlers, fetch, sapphire>>

\* fetchRawTx and psbt.addInput for every UTXO, then the two psbt.addOutput;
\* fetchRawTx may throw.
BuildAddInputsAndOutputs ==
    /\ btc.pc = "build"
    /\ \/ btc' = [btc EXCEPT !.pc = "login",
                              !.psbt = PlanTransaction(DestAddress, btc.amounts, btc.utxos, 1)]
       \/ btc' = Thrown(btc, "Failed to fetch raw transaction")
    /\ UNCHANGED <<oracle, burn, handlers, fetch, sapphire>>

\* siweLogin: contract.login returns the session token, here the position of
\* the login among the signer calls of the build; then contract.publicKey().
\* Either may throw.
BuildSiweLogin ==
    /\ btc.pc = "login"
    /\ \/ btc' = [btc EXCEPT !.pc = "sign", !.token = Len(btc.log) + 1, !.i = 1,
                              !.log = Append(@, [op |-> "login", input |-> 0,
                                                 token |-> Len(btc.log) + 1])]
       \/ btc' = Thrown(btc, "Login failed")
    /\ UNCHANGED <<oracle, burn, handlers, fetch, sapphire>>

\* Mutation: every input is signed under a token of its own.
SignRequestOwnToken(b) == [op |-> "sign", input |-> b.i, token |-> b.token + b.i - 1]

\* contract.sign(sighashHex, token) for input i.
SignRequest(b) == [op |-> "sign", input |-> b.i, token |-> b.token]

\* One round of the signing loop: contract.sign(sighashHex, token) for input
\* i, the DER encoding, updateInput and finalizeInput; after the last input
\* the transaction is extracted and returned.  Any of the calls may throw:
\* before the request is made (hashForSignature) or after it.
\* psbt.extractTransaction() checks the fee and throws when the outputs
\* spend more than the inputs.
BuildSignInput ==
    /\ btc.pc = "sign"
    /\ LET request == SignRequest(btc)
           signed == [btc EXCEPT !.log = Append(@, request)]
           RECURSIVE OutputSum(_)
           OutputSum(outputs) ==
               IF outputs = <<>> THEN 0
               ELSE Head(outputs).value + OutputSum(Tail(outputs))
       IN
       \/ btc' = IF btc.i < Len(btc.utxos)
                 THEN [signed EXCEPT !.i = @ + 1]
                 ELSE IF OutputSum(btc.psbt.outputs) > TotalBalance(btc.psbt.inputs)
                 THEN Thrown(signed, "Outputs are spending more than Inputs")
                 ELSE [signed EXCEPT !.pc = "done", !.tx = btc.psbt]
       \/ btc' = [Thrown(btc, "Signing failed") EXCEPT !.log = Append(@, request)]
       \/ btc' = Thrown(btc, "Signing failed")
    /\ UNCHANGED <<oracle, burn, handlers, fetch, sapphire>>

\* generateAndSignTransaction is called again on the same BitcoinActions,
\* for the same amount; the APIs may answer differently by then.
BuildAgain ==
    /\ btc.pc \in {"done", "failed"}
    /\ \E configs \in ApiConfigLists :
         btc' = [PlanIdle(btc.network, configs, btc.amountSat, btc.utxos)
                    EXCEPT !.estimates = btc.estimates]
    /\ UNCHANGED <<oracle, burn, handlers, fetch, sapphire>>

-----------------------------------------------------------------------------
(* DER signatures.  A bigint is its hexadecimal digits, most significant   *)
(* first and without leading zeros (what toString(16) prints); a Buffer is *)
(* a sequence of bytes; a BN is the bytes of its number without leading    *)
(* zeros.                                                                  *)

\* The r and s that contract.sign returns: uint256 values of 1, 2, 3, 62, 63
\* and 64 hexadecimal digits, the first digit below or above 8.
HexInputs ==
    {[i \in 1..n |-> IF i = 1 THEN lead ELSE fill] :
        n \in {1, 2, 3, 62, 63, 64}, lead \in {1, 7, 8, 15}, fill \in {0, 15}}

\* Buffer.from(hex, 'hex'): one byte per pair of digits; a trailing single
\* digit is dropped.
BufferFromHex(hex) ==
    [i \in 1..(Len(hex) \div 2) |-> 16 * hex[2 * i - 1] + hex[2 * i]]

\* toPositiveBuffer without the sign byte.
ToPositiveBufferAsIs(buf) == buf

\* toPositiveBuffer: buf[0] & 0x80 is the top bit of the first byte, and is
\* falsy for an empty buffer.
ToPositiveBuffer(buf) ==
    IF Len(buf) > 0 /\ buf[1] >= 128 THEN <<0>> \o buf ELSE buf

\* new BN(buf): the number the bytes denote, big-endian.
RECURSIVE BNFromBuffer(_)
BNFromBuffer(buf) ==
    IF buf # <<>> /\ buf[1] = 0 THEN BNFromBuffer(Tail(buf)) ELSE buf

\* The conditions under which bip66.encode and bip66.decode reject an
\* integer: empty, longer than 33 bytes, negative, excessively padded.
Bip66Rejects(x) ==
    \/ Len(x) = 0
    \/ Len(x) > 33
    \/ x[1] >= 128
    \/ Len(x) > 1 /\ x[1] = 0 /\ x[2] < 128

\* encodeDerSignature(r, s).  toArrayLike(Buffer, 'be') without a length
\* gives max(1, byteLength) bytes; bip66.encode writes
\* 0x30 [total-length] 0x02 [R-length] [R] 0x02 [S-length] [S].
EncodeDerSignature(r, s) ==
    LET ToArrayLike(bn) == IF bn = <<>> THEN <<0>> ELSE bn
        rBuf == ToPositiveBuffer(ToArrayLike(r))
        sBuf == ToPositiveBuffer(ToArrayLike(s))
    IN  IF Bip66Rejects(rBuf) \/ Bip66Rejects(sBuf)
        THEN [ok |-> FALSE, bytes |-> <<>>]
        ELSE [ok |-> TRUE,
              bytes |-> <<48, 4 + Len(rBuf) + Len(sBuf), 2, Len(rBuf)>> \o rBuf
                           \o <<2, Len(sBuf)>> \o sBuf]

\* The signature of one input, from the r and s of contract.sign to the
\* bytes handed to psbt.updateInput: DER followed by SIGHASH_ALL.
DerSig(r, s) ==
    LET PadStart(hex, n) ==
            IF Len(hex) >= n THEN hex
            ELSE [i \in 1..n |->
                     IF i <= n - Len(hex) THEN 0 ELSE hex[i - (n - Len(hex))]]
        rBuf == ToPositiveBuffer(BufferFromHex(PadStart(r, 64)))
        sBuf == ToPositiveBuffer(BufferFromHex(PadStart(s, 64)))
        der == EncodeDerSignature(BNFromBuffer(rBuf), BNFromBuffer(sBuf))
    IN  IF der.ok THEN [ok |-> TRUE, bytes |-> der.bytes \o <<1>>] ELSE der

\* What the network reads back from a signature: the hash type is the last
\* byte, the rest goes through bip66.decode, and r and s are the numbers
\* their bytes denote.
DecodeSignature(bytes) ==
    LET buffer == SubSeq(bytes, 1, Len(bytes) - 1)
        lenR == buffer[4]
        lenS == buffer[6 + lenR]
        r == SubSeq(buffer, 5, 4 + lenR)
        s == SubSeq(buffer, 7 + lenR, Len(buffer))
        HexOf(buf) ==
            LET digits == BNFromBuffer(
                             [i \in 1..(2 * Len(buf)) |->
                                 IF i % 2 = 1 THEN buf[(i + 1) \div 2] \div 16
                                              ELSE buf[i \div 2] % 16])
            IN  IF digits = <<>> THEN <<0>> ELSE digits
    IN  IF \/ Len(buffer) < 8 \/ Len(buffer) > 72
           \/ buffer[1] # 48 \/ buffer[2] # Len(buffer) - 2 \/ buffer[3] # 2
           \/ lenR = 0 \/ 5 + lenR >= Len(buffer)
           \/ buffer[5 + lenR] # 2
           \/ lenS = 0 \/ 6 + lenR + lenS # Len(buffer)
           \/ Bip66Rejects(r) \/ Bip66Rejects(s)
        THEN [ok |-> FALSE, r |-> <<>>, s |-> <<>>]
        ELSE [ok |-> TRUE, r |-> HexOf(r), s |-> HexOf(s)]

\* BitcoinActions.generateAndSignTransaction, one round of the signing
\* loop after contract.sign has answered: the signature is encoded, or
\* bip66 throws.
DerEncode ==
    /\ btc.pc = "signed"
    /\ LET derSig == DerSig(btc.r, btc.s)
       IN  btc' = [btc EXCEPT !.pc = IF derSig.ok THEN "encoded" ELSE "failed",
                              !.derSig = derSig.bytes]
    /\ UNCHANGED <<oracle, burn, handlers, fetch, sapphire>>

\* The signature is read back.
DerDecode ==
    /\ btc.pc = "encoded"
    /\ btc' = [btc EXCEPT !.pc = "decoded", !.read = DecodeSignature(btc.derSig)]
    /\ UNCHANGED <<oracle, burn, handlers, fetch, sapphire>>

-----------------------------------------------------------------------------
(* Sender resolution in fetchFromNode.  An input of the verbose raw        *)
(* transaction has an optional address, an optional scriptSig (hex, and    *)
(* asm split at the blanks), its witness items, and `prev`: what the node  *)
(* answers when asked for the output the input spends.                     *)

NoSender == [thrown |-> FALSE, sender |-> NULL]

\* bitcoin.payments.p2wpkh({ pubkey }): the address of a public key; throws
\* when the bytes are no public key.
P2wpkh(pubKeyHex) ==
    IF pubKeyHex = "02k1" THEN [thrown |-> FALSE, sender |-> "p2wpkh(02k1)"]
    ELSE [thrown |-> TRUE, sender |-> NULL]

\* bitcoin.payments.p2pkh({ hash: hash160(Buffer.from(hex, 'hex')) }): the
\* bytes are hashed whatever they are; Buffer.from stops at the first
\* character that is no hexadecimal digit.
P2pkhOfHash160(hex) ==
    [thrown |-> FALSE,
     sender |-> IF hex = "02k1" THEN "p2pkh(02k1)" ELSE "p2pkh()"]

\* getRawTransaction(input.txid, 1) and the address of its output
\* input.vout, if the transaction has that output and the output an address.
PreviousOutputAddress(input) ==
    IF input.prev.thrown THEN [thrown |-> TRUE, sender |-> NULL]
    ELSE [thrown |-> FALSE, sender |-> input.prev.address]

\* Mutation: no try/catch around a method.
OrRethrown(r) == r

\* `try { ... } catch (e) { console.error(...) }` around a method: the
\* sender stays null.
OrNoSender(r) == IF r.thrown THEN NoSender ELSE r

\* Method 3: two or more witness items, the second is the public key of a
\* P2WPKH spend; one item, it is the script of a P2WSH spend.
WitnessAddress(input) ==
    IF Len(input.txinwitness) > 1
    THEN P2wpkh(input.txinwitness[2])
    ELSE [thrown |-> FALSE, sender |-> "p2wsh(script)"]

\* Method 4: the last part of scriptSig.asm without its [ALL] suffix is
\* hashed as a public key; without a sender yet, the previous output is
\* looked up, inside a try/catch of its own.
ScriptSigAddress(input) ==
    LET pubKeyHex == input.scriptSig.asm[Len(input.scriptSig.asm)]
        cleanPubKeyHex == IF pubKeyHex = "[ALL]" THEN "" ELSE pubKeyHex
    IN  IF cleanPubKeyHex # "" THEN P2pkhOfHash160(cleanPubKeyHex)
        ELSE OrNoSender(PreviousOutputAddress(input))

\* The if / else if chain over one input: the first method whose condition
\* holds is the only one tried.
ResolveSender(input) ==
    IF input.address # NULL THEN [thrown |-> FALSE, sender |-> input.address]
    ELSE IF input.scriptSig.present /\ input.scriptSig.hex = ""
    THEN OrNoSender(PreviousOutputAddress(input))
    ELSE IF Len(input.txinwitness) > 0
    THEN OrNoSender(WitnessAddress(input))
    ELSE IF input.scriptSig.present /\ input.scriptSig.asm # <<>>
    THEN OrNoSender(ScriptSigAddress(input))
    ELSE NoSender

\* What a node may report for an input: no scriptSig, an empty one, one of a
\* signature and a key, one whose last part is no key, one of a bare [ALL];
\* no witness, a script, a signature and a key, a signature and no key; a
\* lookup of the previous output that throws, finds no address, finds one.
Inputs ==
    [address : {NULL, AddrA},
     scriptSig : {[present |-> FALSE, hex |-> "", asm |-> <<>>],
                  [present |-> TRUE, hex |-> "", asm |-> <<>>],
                  [present |-> TRUE, hex |-> "4830", asm |-> <<"3045[ALL]", "02k1">>],
                  [present |-> TRUE, hex |-> "4830", asm |-> <<"3045[ALL]", "zz">>],
                  [present |-> TRUE, hex |-> "4830", asm |-> <<"[ALL]">>]},
     txinwitness : {<<>>, <<"script">>, <<"3045", "02k1">>, <<"3045", "zz">>},
     prev : {[thrown |-> TRUE, address |-> NULL],
             [thrown |-> FALSE, address |-> NULL],
             [thrown |-> FALSE, address |-> "p2wpkh(02k1)"],
             [thrown |-> FALSE, address |-> AddrB]}]

\* fetchFromNode, one round of the loop over tx.vin; an error that leaves
\* the loop is caught by the function's own catch block, which returns
\* null.
ResolveNextInput ==
    /\ fetch.pc = "vin"
    /\ fetch.i <= Len(fetch.vin)
    /\ LET r == ResolveSender(fetch.vin[fetch.i])
       IN  fetch' = IF r.thrown
                    THEN [fetch EXCEPT !.pc = "done"]
                    ELSE [fetch EXCEPT !.i = @ + 1,
                                       !.resolved = Append(@, r.sender),
                                       !.senders = ExtractSendersFrom(<<r.sender>>, @)]
    /\ UNCHANGED <<oracle, burn, handlers, btc, sapphire>>

\* fetchFromNode after the loop: the record is returned.
NodeReturns ==
    /\ fetch.pc = "vin"
    /\ fetch.i > Len(fetch.vin)
    /\ fetch' = [fetch EXCEPT !.pc = "done",
                              !.out = [NodeFacts([TruePayload EXCEPT !.vin = <<>>], "node")
                                          EXCEPT !.sender = fetch.senders]]
    /\ UNCHANGED <<oracle, burn, handlers, btc, sapphire>>

-----------------------------------------------------------------------------
(* SapphireConnection: the contract's send with error handling,            *)
(* handleRpcError and reconnect.  Every await is one step.                 *)

\* private readonly MAX_RECONNECT_ATTEMPTS = 3
MAX_RECONNECT_ATTEMPTS == 3

\* private isReconnecting = false; private reconnectAttempts = 0.
\* lastReconnect remembers how the latest reconnect() ended.
SapphireConstructed ==
    [isReconnecting |-> FALSE, reconnectAttempts |-> 0, lastReconnect |-> "none",
     calls |-> <<>>]

\* Mutation: handleRpcError without `if (this.isReconnecting) return`.
StartsReconnectAlways(s) == TRUE

\* handleRpcError goes on to reconnect unless isReconnecting is set.
StartsReconnect(s) == ~s.isReconnecting

\* A call of the contract's send: originalSend is awaited.  A call counts
\* the reconnects made on its behalf.
ContractSend ==
    /\ Len(sapphire.calls) < MaxCalls
    /\ sapphire' = [sapphire EXCEPT !.calls =
                       Append(@, [pc |-> "send", attempts |-> 0, reconnected |-> FALSE])]
    /\ UNCHANGED <<oracle, burn, handlers, fetch, btc>>

\* originalSend settles: it returns, it throws an error that is rethrown,
\* or it throws an RPC error and handleRpcError runs up to its first await:
\* it returns at once when a reconnect is in progress, and otherwise sets
\* isReconnecting and awaits reconnect().
SendSettles(i) ==
    /\ i \in 1..Len(sapphire.calls)
    /\ sapphire.calls[i].pc = "send"
    /\ \/ sapphire' = [sapphire EXCEPT !.calls[i].pc = "returned"]
       \/ sapphire' = [sapphire EXCEPT !.calls[i].pc = "thrown"]
       \/ sapphire' = IF StartsReconnect(sapphire)
                      THEN [sapphire EXCEPT !.isReconnecting = TRUE,
                                            !.calls[i].pc = "reconnect"]
                      ELSE [sapphire EXCEPT !.calls[i].pc = "retry"]
    /\ UNCHANGED <<oracle, burn, handlers, fetch, btc>>

\* Mutation: the error thrown at MAX_RECONNECT_ATTEMPTS leaves
\* handleRpcError without passing through `finally`.
ReconnectSettlesNoFinally(i) ==
    /\ i \in 1..Len(sapphire.calls)
    /\ sapphire.calls[i].pc = "reconnect"
    /\ \/ sapphire' = [sapphire EXCEPT !.reconnectAttempts = 0,
                                       !.isReconnecting = FALSE,
                                       !.lastReconnect = "ok",
                                       !.calls[i].pc = "retry",
                                       !.calls[i].attempts = @ + 1,
                                       !.calls[i].reconnected = TRUE]
       \/ sapphire' = IF sapphire.reconnectAttempts + 1 >= MAX_RECONNECT_ATTEMPTS
                      THEN [sapphire EXCEPT !.reconnectAttempts = @ + 1,
                                            !.lastReconnect = "failed",
                                            !.calls[i].pc = "fatal",
                                            !.calls[i].attempts = @ + 1]
                      ELSE [sapphire EXCEPT !.reconnectAttempts = @ + 1,
                                            !.lastReconnect = "failed",
                                            !.calls[i].pc = "delay",
                                            !.calls[i].attempts = @ + 1]
    /\ UNCHANGED <<oracle, burn, handlers, fetch, btc>>

\* reconnect() settles.  On success the counter is reset, `finally` clears
\* isReconnecting and the send is retried.  On failure the counter is
\* incremented; at MAX_RECONNECT_ATTEMPTS the error is thrown through
\* `finally`, below it the delay is awaited.
ReconnectSettles(i) ==
    /\ i \in 1..Len(sapphire.calls)
    /\ sapphire.calls[i].pc = "reconnect"
    /\ \/ sapphire' = [sapphire EXCEPT !.reconnectAttempts = 0,
                                       !.isReconnecting = FALSE,
                                       !.lastReconnect = "ok",
                                       !.calls[i].pc = "retry",
                                       !.calls[i].attempts = @ + 1,
                                       !.calls[i].reconnected = TRUE]
       \/ sapphire' = IF sapphire.reconnectAttempts + 1 >= MAX_RECONNECT_ATTEMPTS
                      THEN [sapphire EXCEPT !.reconnectAttempts = @ + 1,
                                            !.isReconnecting = FALSE,
                                            !.lastReconnect = "failed",
                                            !.calls[i].pc = "fatal",
                                            !.calls[i].attempts = @ + 1]
                      ELSE [sapphire EXCEPT !.reconnectAttempts = @ + 1,
                                            !.lastReconnect = "failed",
                                            !.calls[i].pc = "delay",
                                            !.calls[i].attempts = @ + 1]
    /\ UNCHANGED <<oracle, burn, handlers, fetch, btc>>

\* The RECONNECT_DELAY_MS timer fires and handleRpcError calls itself,
\* inside its own try: the inner call reconnects, or returns at once and
\* the outer `finally` clears isReconnecting before the send is retried.
DelayElapsed(i) ==
    /\ i \in 1..Len(sapphire.calls)
    /\ sapphire.calls[i].pc = "delay"
    /\ sapphire' = IF StartsReconnect(sapphire)
                   THEN [sapphire EXCEPT !.isReconnecting = TRUE,
                                         !.calls[i].pc = "reconnect"]
                   ELSE [sapphire EXCEPT !.isReconnecting = FALSE,
                                         !.calls[i].pc = "retry"]
    /\ UNCHANGED <<oracle, burn, handlers, fetch, btc>>

\* `return await originalSend.apply(this.contract, args)` after
\* handleRpcError: the second send returns or throws to the caller.
RetrySettles(i) ==
    /\ i \in 1..Len(sapphire.calls)
    /\ sapphire.calls[i].pc = "retry"
    /\ \/ sapphire' = [sapphire EXCEPT !.calls[i].pc = "returned"]
       \/ sapphire' = [sapphire EXCEPT !.calls[i].pc = "thrown"]
    /\ UNCHANGED <<oracle, burn, handlers, fetch, btc>>

-----------------------------------------------------------------------------
(* Specifications.                                                         *)

\* The oracle after construction; the burn record is in any status the
\* contract may hold.
Init ==
    /\ oracle = OracleConstructed
    /\ sapphire = SapphireConstructed
    /\ burn \in {BurnRecord(status) : status \in BurnStatuses}
    /\ handlers = <<>>
    /\ fetch = FetchIdle(0)
    /\ btc = NoCall

Next ==
    \/ Run
    \/ EmitTransactionProofSubmitted
    \/ EmitBurnGenerateTransaction
    \/ EmitBurnValidateTransaction
    \/ \E i \in 1..MaxEvents : ProofFetched(i)
    \/ \E i \in 1..MaxEvents : ProofMintSent(i)
    \/ \E i \in 1..MaxEvents : ProofMintWaited(i)
    \/ \E i \in 1..MaxEvents : GenerateBurnDataRead(i)
    \/ \E i \in 1..MaxEvents : GeneratePlanned(i)
    \/ \E i \in 1..MaxEvents : GenerateLoggedIn(i)
    \/ \E i \in 1..MaxEvents : GenerateSigned(i)
    \/ \E i \in 1..MaxEvents : GenerateBurnSignedSent(i)
    \/ \E i \in 1..MaxEvents : GenerateBurnSignedWaited(i)
    \/ \E i \in 1..MaxEvents : GenerateBroadcast(i)
    \/ \E i \in 1..MaxEvents : ValidateBurnDataRead(i)
    \/ \E i \in 1..MaxEvents : ValidateFetched(i)
    \/ \E i \in 1..MaxEvents : ValidateSent(i)
    \/ \E i \in 1..MaxEvents : ValidateWaited(i)

Spec == Init /\ [][Next]_vars

\* The oracle with stop(): the handlers as in Spec, and the owner of the
\* oracle may stop it while it runs.
NextStop ==
    \/ Next
    \/ Stop
    \/ RunReturns

SpecStop == Init /\ [][NextStop]_vars

\* One fetchTransactionInfo call with 1..MaxProviders configured RPC nodes.
InitFetch ==
    /\ oracle = OracleConstructed
    /\ sapphire = SapphireConstructed
    /\ burn = BurnRecord(Requested)
    /\ handlers = <<>>
    /\ fetch \in {FetchIdle(nodes) : nodes \in 1..MaxProviders}
    /\ btc = NoCall

NextFetch ==
    \/ InitializeConnections
    \/ \E k \in 1..MaxProviders : FetchFromNode(k)
    \/ FetchSettled

SpecFetch == InitFetch /\ [][NextFetch]_vars

\* Every awaited call of a handler settles, so a handler that can resume does.
HandlerStep(i) ==
    \/ ProofFetched(i) \/ ProofMintSent(i) \/ ProofMintWaited(i)
    \/ GenerateBurnDataRead(i) \/ GeneratePlanned(i) \/ GenerateLoggedIn(i)
    \/ GenerateSigned(i) \/ GenerateBurnSignedSent(i)
    \/ GenerateBurnSignedWaited(i) \/ GenerateBroadcast(i)
    \/ ValidateBurnDataRead(i) \/ ValidateFetched(i)
    \/ ValidateSent(i) \/ ValidateWaited(i)

SpecLive == Spec /\ \A i \in 1..MaxEvents : WF_vars(HandlerStep(i))

\* One BitcoinActions.fetchTransactionInfo call over 1..MaxProviders APIs,
\* each standing at its own tip.
InitApi ==
    /\ oracle = OracleConstructed
    /\ sapphire = SapphireConstructed
    /\ burn = BurnRecord(Requested)
    /\ handlers = <<>>
    /\ fetch = FetchIdle(0)
    /\ \E n \in 1..MaxProviders, ascending \in BOOLEAN :
          \E tips \in [1..n -> TipViews] :
             btc = ApiIdle([k \in 1..n |->
                              [priority |-> IF ascending THEN k ELSE n + 1 - k,
                               tip |-> tips[k]]])

NextApi ==
    \/ ApiTxFailed
    \/ ApiTxReceived
    \/ ApiTipFailed
    \/ ApiTipReceived

SpecApi == InitApi /\ [][NextApi]_vars

\* One generateAndSignTransaction call on either network.
InitPlan ==
    /\ oracle = OracleConstructed
    /\ sapphire = SapphireConstructed
    /\ burn = BurnRecord(Requested)
    /\ handlers = <<>>
    /\ fetch = FetchIdle(0)
    /\ btc \in {PlanIdle(network, configs, amountSat, <<>>) :
                   network \in {"testnet", "mainnet"},
                   configs \in ApiConfigLists, amountSat \in PlanAmounts}

NextPlan ==
    \/ BuildGetAllUtxos
    \/ BuildGetNetworkFeeRate
    \/ BuildCalculateAmounts
    \/ BuildAddInputsAndOutputs
    \/ BuildSiweLogin
    \/ BuildSignInput
    \/ BuildAgain

SpecPlan == InitPlan /\ [][NextPlan]_vars

\* One generateAndSignTransaction call whose RPC provider may answer
\* estimatesmartfee with any number.
InitFee ==
    /\ oracle = OracleConstructed
    /\ sapphire = SapphireConstructed
    /\ burn = BurnRecord(Requested)
    /\ handlers = <<>>
    /\ fetch = FetchIdle(0)
    /\ btc \in {[PlanIdle(network, configs, amountSat, <<>>)
                    EXCEPT !.estimates = EstimatesOfAnyProvider] :
                   network \in {"testnet", "mainnet"},
                   configs \in ApiConfigLists, amountSat \in PlanAmounts}

SpecFee == InitFee /\ [][NextPlan]_vars

\* contract.sign has answered with r and s.
InitDer ==
    /\ oracle = OracleConstructed
    /\ sapphire = SapphireConstructed
    /\ burn = BurnRecord(Requested)
    /\ handlers = <<>>
    /\ fetch = FetchIdle(0)
    /\ btc \in {[pc |-> "signed", r |-> r, s |-> s, derSig |-> <<>>,
                 read |-> [ok |-> FALSE, r |-> <<>>, s |-> <<>>]] :
                   r \in HexInputs, s \in HexInputs}

NextDer ==
    \/ DerEncode
    \/ DerDecode

SpecDer == InitDer /\ [][NextDer]_vars

\* getRawTransaction has answered with a transaction of one input, or of
\* two, the second carrying its address or nothing at all.
InitNode ==
    /\ oracle = OracleConstructed
    /\ sapphire = SapphireConstructed
    /\ burn = BurnRecord(Requested)
    /\ handlers = <<>>
    /\ btc = NoCall
    /\ \E first \in Inputs, address \in {NULL, AddrA}, inputs \in 1..2 :
          LET second == [address |-> address,
                         scriptSig |-> [present |-> FALSE, hex |-> "", asm |-> <<>>],
                         txinwitness |-> <<>>,
                         prev |-> [thrown |-> TRUE, address |-> NULL]]
          IN  fetch = [pc |-> "vin",
                       vin |-> IF inputs = 1 THEN <<first>> ELSE <<first, second>>,
                       i |-> 1, resolved |-> <<>>, senders |-> <<>>,
                       out |-> NoResult("node")]

NextNode ==
    \/ ResolveNextInput
    \/ NodeReturns

SpecNode == InitNode /\ [][NextNode]_vars

\* The connection is up and the contract connected; no call is under way.
InitRpc ==
    /\ oracle = OracleConstructed
    /\ sapphire = SapphireConstructed
    /\ burn = BurnRecord(Requested)
    /\ handlers = <<>>
    /\ fetch = FetchIdle(0)
    /\ btc = NoCall

NextRpc ==
    \/ ContractSend
    \/ \E i \in 1..MaxCalls : SendSettles(i)
    \/ \E i \in 1..MaxCalls : ReconnectSettles(i)
    \/ \E i \in 1..MaxCalls : DelayElapsed(i)
    \/ \E i \in 1..MaxCalls : RetrySettles(i)

SpecRpc == InitRpc /\ [][NextRpc]_vars

-----------------------------------------------------------------------------
(* Properties of the event handlers.                                       *)

HandlersOf(name) == {i \in 1..Len(handlers) : handlers[i].event.name = name}

HasCall(h, op) == CountOp(h.log, op) > 0

Broadcasts(h) == SelectSeq(h.log, LAMBDA c : c.op = "sendRawTransaction")

\* The handler ran to its end and none of its awaited calls failed.
Completed(h) == h.pc = "done" /\ ~h.caught /\ ~h.thrown

ExactlyOnePayout(h) ==
    /\ Len(Broadcasts(h)) = 1
    /\ h.sent
    /\ Broadcasts(h)[1].address = h.burnInfo.bitcoinAddress
    /\ Broadcasts(h)[1].amount = h.burnInfo.amount
    /\ h.tx.outputs[1] = [address |-> h.burnInfo.bitcoinAddress, value |-> h.burnInfo.amount]

NoGenerationCalls(h) == h.log = <<>> /\ h.tx = NoTx /\ ~h.sent

\* C2 as stated: a BurnGenerateTransaction event for a record whose status
\* is not Requested (0) builds nothing, calls neither login nor sign nor
\* burnSigned, and broadcasts nothing.
C2_AsStated ==
    \A i \in HandlersOf("BurnGenerateTransaction") :
        (handlers[i].burnInfo # NotRead /\ handlers[i].burnInfo.status # 0)
            => NoGenerationCalls(handlers[i])

\* C2, amended: a BurnGenerateTransaction event for a record whose status is
\* anything but GenerateRequested (1), that is Requested, Signed or
\* Validated, is skipped: nothing built, no login, sign or burnSigned call,
\* nothing broadcast.
C2_OtherStatusIsSkipped ==
    \A i \in HandlersOf("BurnGenerateTransaction") :
        handlers[i].burnInfo.status # 1 => NoGenerationCalls(handlers[i])

C2_Witness ==
    \E i \in HandlersOf("BurnGenerateTransaction") :
        /\ handlers[i].pc = "done"
        /\ handlers[i].burnInfo.status \in {2, 3}
        /\ NoGenerationCalls(handlers[i])

\* C3: on BurnValidateTransaction, validateBurn is called exactly when the
\* record read has status Signed (2) and the fetched facts report at least
\* 6 confirmations; it is the handler's only call, made at most once, and
\* with another status the transaction is not even fetched.
C3_ValidateIffSignedAndConfirmed ==
    \A i \in HandlersOf("BurnValidateTransaction") :
        LET h == handlers[i] IN
        /\ HasCall(h, "validateBurn")
             <=> (h.burnInfo.status = 2 /\ h.txInfo.ok /\ h.txInfo.confirmations >= 6)
        /\ \A k \in 1..Len(h.log) : h.log[k].op = "validateBurn"
        /\ Len(h.log) <= 1
        /\ h.burnInfo.status # 2 => (h.txInfo = FetchError /\ h.log = <<>>)

C3_Witness ==
    \E i, j \in HandlersOf("BurnValidateTransaction") :
        /\ Completed(handlers[i])
        /\ HasCall(handlers[i], "validateBurn")
        /\ handlers[i].txInfo.confirmations = 6
        /\ handlers[j].pc = "done"
        /\ handlers[j].txInfo.ok
        /\ handlers[j].txInfo.confirmations = 5
        /\ handlers[j].log = <<>>

SenderSet(txInfo) == {txInfo.sender[k] : k \in 1..Len(txInfo.sender)}

\* C4: on TransactionProofSubmitted, mint is called only if the fetched
\* facts name exactly one sender and the signature is that sender's over
\* txHash followed by the claimant.
C4_MintOnlyForSingleVerifiedSender ==
    \A i \in HandlersOf("TransactionProofSubmitted") :
        LET h == handlers[i] IN
        HasCall(h, "mint") =>
            /\ h.txInfo.ok
            /\ Cardinality(SenderSet(h.txInfo)) = 1
            /\ \E sender \in SenderSet(h.txInfo) :
                 h.event.signature =
                     Signature(sender, h.event.txHash \o <<h.event.ethereumAddress>>)

C4_Witness ==
    \E i, j \in HandlersOf("TransactionProofSubmitted") :
        /\ HasCall(handlers[i], "mint")
        /\ handlers[j].pc = "done"
        /\ Cardinality(SenderSet(handlers[j].txInfo)) = 2
        /\ handlers[j].event.signature =
              Signature(AddrA, handlers[j].event.txHash \o <<handlers[j].event.ethereumAddress>>)
        /\ ~HasCall(handlers[j], "mint")

\* C5: when the facts name one sender and the signature verifies, the
\* handler calls mint exactly once, with the event's claimant, the amount
\* the facts report for the tracked address, and the event's transaction
\* hash; no handler calls mint more than once.
C5_MintOnceWithEventData ==
    \A i \in HandlersOf("TransactionProofSubmitted") :
        LET h == handlers[i] IN
        /\ CountOp(h.log, "mint") <= 1
        /\ (h.txInfo.ok /\ Len(h.txInfo.sender) = 1
            /\ h.event.signature =
                 Signature(h.txInfo.sender[1], h.event.txHash \o <<h.event.ethereumAddress>>))
           => /\ CountOp(h.log, "mint") = 1
              /\ h.log = <<[op |-> "mint", address |-> h.event.ethereumAddress,
                            amount |-> h.txInfo.amount, hash |-> h.event.txHash]>>
              /\ h.txInfo.amount = IF h.txInfo.receiver = TrackedAddress THEN 5 ELSE 0

C5_Witness ==
    \E i \in HandlersOf("TransactionProofSubmitted") :
        /\ Completed(handlers[i])
        /\ CountOp(handlers[i].log, "mint") = 1
        /\ handlers[i].log[1].hash = DepositTxHash

\* C6: however the handlers of several BurnGenerateTransaction deliveries
\* for the burn interleave, at most one of them calls sendRawTransaction,
\* given that the contract accepts burnSigned once per burn.
C6_AtMostOneBroadcast ==
    Cardinality({i \in HandlersOf("BurnGenerateTransaction") :
                    HasCall(handlers[i], "sendRawTransaction")}) <= 1

C6_Witness ==
    \E i, j \in HandlersOf("BurnGenerateTransaction") :
        /\ i # j
        /\ HasCall(handlers[i], "burnSigned")
        /\ HasCall(handlers[j], "burnSigned")
        /\ handlers[i].sent
        /\ handlers[j].caught
        /\ ~HasCall(handlers[j], "sendRawTransaction")

\* C7: an error at any step of a handler is caught inside the handler: no
\* handler's promise rejects, the three listeners stay registered while the
\* oracle runs.
C7_HandlerErrorsAreCaught ==
    /\ \A i \in 1..Len(handlers) : ~handlers[i].thrown
    /\ oracle.isRunning => oracle.listeners = EventNames
    /\ handlers # <<>> => oracle.isRunning

\* A failed event of each kind, each followed by an event handled to its end.
C7_Witness ==
    \E i, j \in 1..Len(handlers) :
        /\ i < j
        /\ handlers[i].caught
        /\ handlers[i].log # <<>>
        /\ Completed(handlers[j])
        /\ handlers[j].log # <<>>

-----------------------------------------------------------------------------
(* Properties of the consensus fetcher.                                    *)

Settled == fetch.pc \in {"done", "failed"}

Successful == {k \in 1..Len(fetch.results) : fetch.results[k].ok}

\* Two results agree on the compared fields; senders are a set.
Agree(r1, r2) ==
    /\ r1.amount = r2.amount
    /\ SenderSet(r1) = SenderSet(r2)
    /\ r1.receiver = r2.receiver
    /\ r1.confirmations = r2.confirmations

\* C8: the fetch fails exactly when every provider failed or returned null
\* (or none could be connected); one successful provider is enough, and the
\* value returned is one provider's whole answer, never a partial one.
C8_FailsIffEveryProviderFailed ==
    Settled =>
        /\ fetch.pc = "failed" <=> Successful = {}
        /\ fetch.pc = "failed" => fetch.out = FetchError
        /\ fetch.pc = "done" => \E k \in Successful : fetch.out = fetch.results[k]

C8_Witness ==
    /\ fetch.pc = "done"
    /\ Len(fetch.results) = 3
    /\ Cardinality(Successful) = 1
    /\ fetch.out.provider = 3

\* C9: when the successful responses agree on amount, sender set, receiver
\* and confirmations, the fetch returns that agreed value, wherever in the
\* list the successful providers stand and in whatever order they answered.
C9_AgreedValueIsReturned ==
    (Settled /\ Successful # {}
     /\ \A a, b \in Successful : Agree(fetch.results[a], fetch.results[b]))
        => /\ fetch.pc = "done"
           /\ \A a \in Successful : Agree(fetch.out, fetch.results[a])

C9_Witness ==
    /\ fetch.pc = "done"
    /\ Successful = {1, 3}
    /\ Agree(fetch.results[1], fetch.results[3])
    /\ fetch.results[1].sender # fetch.results[3].sender
    /\ fetch.results[2] = NoResult(2)

\* C10 as stated: with at least three successful responses of which exactly
\* one dissents from the others, the fetch returns the value of the others,
\* wherever the dissenter stands.
C10_AsStated ==
    \A d \in Successful :
        (/\ Settled
         /\ Cardinality(Successful) >= 3
         /\ \A a, b \in Successful \ {d} : Agree(fetch.results[a], fetch.results[b])
         /\ \A a \in Successful \ {d} : ~Agree(fetch.results[d], fetch.results[a]))
            => \A a \in Successful \ {d} : Agree(fetch.out, fetch.results[a])

\* The successful results that carry exactly the fields of result k, the
\* sender array position by position.
ExactGroup(k) ==
    {j \in Successful :
        /\ fetch.results[j].amount = fetch.results[k].amount
        /\ fetch.results[j].sender = fetch.results[k].sender
        /\ fetch.results[j].receiver = fetch.results[k].receiver
        /\ fetch.results[j].confirmations = fetch.results[k].confirmations}

\* The members of the groups with the highest vote count.
TopVoted ==
    {k \in Successful :
        \A j \in Successful : Cardinality(ExactGroup(j)) <= Cardinality(ExactGroup(k))}

RespondedAt(k) == CHOOSE p \in 1..Len(fetch.responded) : fetch.responded[p] = k

\* C11 as stated: the fetch returns a result of a group with the highest
\* vote count, and among tied groups that of the provider that responded
\* first.
C11_AsStated ==
    fetch.pc = "done" =>
        \E k \in TopVoted :
            /\ fetch.out = fetch.results[k]
            /\ \A j \in TopVoted : RespondedAt(k) <= RespondedAt(j)

\* C11, amended: the fetch returns a result of an exact-equality group with
\* the highest vote count, and among tied groups that of the provider that
\* stands first in the list of providers, whatever the order of responses.
C11_TieGoesToFirstListed ==
    fetch.pc = "done" =>
        \E k \in TopVoted :
            /\ fetch.out = fetch.results[k]
            /\ \A j \in TopVoted : k <= j

C11_Witness ==
    /\ fetch.pc = "done"
    /\ Cardinality(Successful) = 3
    /\ \E k, j \in TopVoted :
         /\ fetch.out = fetch.results[k]
         /\ j \notin ExactGroup(k)
         /\ RespondedAt(j) < RespondedAt(k)
         /\ \A i \in ExactGroup(k) : RespondedAt(j) < RespondedAt(i)

\* The providers whose query has been started, and those whose query has
\* settled.
Started == {k \in 1..Len(fetch.results) : TRUE}
Answered == {fetch.responded[p] : p \in 1..Len(fetch.responded)}

C13_AsStated ==
    Settled =>
        /\ \A a, b \in Successful :
              Agree(fetch.results[a], fetch.results[b])
                 => ResultKey(fetch.results[a]) = ResultKey(fetch.results[b])
        /\ (\A a, b \in Successful : Agree(fetch.results[a], fetch.results[b]))
              => AreResultsConsistent(SuccessfulResults(fetch.results))

\* C14 as stated: in every result a provider adapter produced, the amount to
\* the tracked address is positive exactly when the tracked address is
\* reported as receiver, outputs of value 0 to the tracked address included.
C14_AsStated ==
    \A k \in Successful :
        fetch.results[k].amount > 0 <=> fetch.results[k].receiver # NULL

\* C15 as stated: the confirmations of every returned result are a
\* non-negative integer: 0 for an unconfirmed transaction and, for one
\* included in a block, tip height - block height + 1 computed from the tip
\* height of whichever API supplied it.
C15_AsStated ==
    btc.pc = "done" =>
        /\ btc.out.confirmations >= 0
        /\ btc.out.confirmations =
              IF btc.out.blockHeight = 0 THEN 0
              ELSE btc.tips[btc.tipFrom] - btc.out.blockHeight + 1

\* The planner has computed the amounts or refused them; it has returned
\* them.
AmountsCalculated ==
    /\ btc.pc \notin {"utxos", "feeRate", "amounts"}
    /\ btc.pc = "failed" => btc.error \notin {"Failed to fetch UTXOs", "Failed to connect"}

InsufficientFunds == btc.pc = "failed" /\ btc.error = "Not enough funds"

AmountsReturned == AmountsCalculated /\ ~InsufficientFunds

EstimatedTxSizeBytes == 10 + 148 * Len(btc.utxos) + 34 * 2

C17_LowerRateSmallerFee ==
    AmountsReturned =>
        /\ btc.amounts = CalculateAmounts(TotalBalance(btc.utxos), btc.amountSat,
                                          Len(btc.utxos), btc.feeRate)
        /\ \A rate \in 1..(btc.feeRate - 1) :
              LET lower == CalculateAmounts(TotalBalance(btc.utxos), btc.amountSat,
                                            Len(btc.utxos), rate) IN
              /\ lower.ok
              /\ lower.amountToSendSat = btc.amounts.amountToSendSat
              /\ lower.fee < btc.amounts.fee
              /\ lower.change > btc.amounts.change

\* Total 100000, target 50000, one input, two outputs: at rate 5 the fee is
\* 1356 and the change 48644, at rate 2 they are 543 and 49457.
C17_Witness ==
    /\ btc.pc = "build"
    /\ TotalBalance(btc.utxos) = 100000 /\ Len(btc.utxos) = 1
    /\ btc.amountSat = 50000
    /\ btc.feeRate = 5
    /\ btc.amounts.fee = 1356 /\ btc.amounts.change = 48644
    /\ CalculateAmounts(100000, 50000, 1, 2).fee = 543
    /\ CalculateAmounts(100000, 50000, 1, 2).change = 49457

\* C18: the fee is the least integer number of satoshis that is at least
\* 1.2 x fee rate x (10 + 148 x inputs + 34 x outputs).
C18_FeeIsCeilingWithMargin ==
    AmountsCalculated =>
        LET exactTenfold == 12 * btc.feeRate * EstimatedTxSizeBytes IN
        /\ btc.amounts.fee \in Nat
        /\ 10 * btc.amounts.fee >= exactTenfold
        /\ 10 * (btc.amounts.fee - 1) < exactTenfold

\* A fee that was rounded up: 1.2 x 2 x 226 = 542.4 gives 543.
C18_Witness ==
    /\ AmountsCalculated
    /\ btc.feeRate = 2 /\ Len(btc.utxos) = 1
    /\ btc.amounts.fee = 543
    /\ 10 * btc.amounts.fee > 12 * btc.feeRate * EstimatedTxSizeBytes

\* C19 as stated: on testnet the fee rate returned never exceeds 5 satoshis
\* per byte, whether the estimate was live, missing or failed; on mainnet a
\* live estimate is returned as its satoshis per kilobyte divided by 1000
\* and rounded up, without a cap.
C19_AsStated ==
    btc.estimate.kind # "unasked" =>
        /\ btc.network = "testnet" => btc.feeRate <= 5
        /\ btc.network = "mainnet" /\ btc.estimate.kind = "feerate" =>
              btc.feeRate = (btc.estimate.satPerKb + 999) \div 1000

\* C20: the transaction built has exactly two outputs: first the amount to
\* send to the destination address, then the change to the tracked address,
\* also when the change is 0.
C20_TwoOutputsInOrder ==
    btc.pc = "done" =>
        /\ Len(btc.tx.outputs) = 2
        /\ btc.tx.outputs[1] = [address |-> DestAddress, value |-> btc.amountSat]
        /\ btc.tx.outputs[2] =
              [address |-> TrackedAddress,
               value |-> TotalBalance(btc.utxos) - btc.amountSat - btc.amounts.fee]

C20_Witness ==
    /\ btc.pc = "done"
    /\ Len(btc.tx.outputs) = 2
    /\ btc.tx.outputs[2] = [address |-> TrackedAddress, value |-> 0]

\* The UTXO lists the APIs of this call hold for the tracked address.
Offered ==
    {btc.configured[k].answer.data : k \in 1..Len(btc.configured)} \ {<<>>}

\* C21: in a transaction returned by the build every UTXO fetched in this
\* call is an input exactly once and there is no other input; the UTXOs are
\* those an API answered in this call, whatever the call before worked with.
C21_InputsAreTheFetchedUtxos ==
    btc.pc = "done" =>
        /\ btc.utxos \in Offered
        /\ Len(btc.tx.inputs) = Len(btc.utxos)
        /\ \A k \in 1..Len(btc.utxos) :
              Cardinality({m \in 1..Len(btc.tx.inputs) : btc.tx.inputs[m] = btc.utxos[k]}) = 1
        /\ \A m \in 1..Len(btc.tx.inputs) :
              \E k \in 1..Len(btc.utxos) : btc.tx.inputs[m] = btc.utxos[k]

\* A second build whose APIs answer two UTXOs after a build that worked with
\* one.
C21_Witness ==
    /\ btc.pc = "done"
    /\ Len(btc.previous) = 1
    /\ Len(btc.tx.inputs) = 2
    /\ btc.previous \notin Offered

Logins == {p \in 1..Len(btc.log) : btc.log[p].op = "login"}
SignRequests == {p \in 1..Len(btc.log) : btc.log[p].op = "sign"}

\* C22: in one build the signer session is opened at most once and before
\* any sign request, every sign request carries the token of that login, a
\* returned transaction had one login followed by one sign request per input,
\* and a build that failed at the UTXOs or at planning made no signer call.
C22_OneLoginBeforeSigning ==
    /\ Cardinality(Logins) <= 1
    /\ \A p \in SignRequests :
          /\ 1 \in Logins /\ p > 1
          /\ btc.log[p].token = btc.log[1].token
    /\ btc.pc = "done" =>
          /\ Len(btc.log) = 1 + Len(btc.utxos)
          /\ Logins = {1}
          /\ \A k \in 1..Len(btc.utxos) : btc.log[k + 1].input = k
    /\ (btc.pc = "failed" /\ btc.error \in {"Failed to fetch UTXOs", "Failed to connect",
                                             "Not enough funds"})
          => btc.log = <<>>

C22_Witness ==
    /\ btc.pc = "done"
    /\ Len(btc.utxos) = 2
    /\ Len(btc.log) = 3
    /\ btc.log[2].token = btc.log[3].token

\* C23: a build in which a signature step failed for any input returns no
\* transaction; a transaction is returned only by a build that completed,
\* after a sign request for every one of its inputs.
C23_NoPartiallySignedTransaction ==
    /\ btc.pc = "failed" => btc.tx = NoTx
    /\ btc.tx # NoTx =>
          /\ btc.pc = "done"
          /\ {btc.log[p].input : p \in SignRequests} = 1..Len(btc.tx.inputs)

\* The first of two inputs was signed, the signature step of the second
\* failed.
C23_Witness ==
    /\ btc.pc = "failed" /\ btc.error = "Signing failed"
    /\ Len(btc.utxos) = 2
    /\ btc.i = 2
    /\ btc.psbt # NoTx
    /\ btc.tx = NoTx

\* The configured APIs that answer a list that is not empty, and among them
\* the one of highest precedence (lowest priority number).
Usable ==
    {k \in 1..Len(btc.configured) :
        btc.configured[k].answer.ok /\ btc.configured[k].answer.data # <<>>}

NoUtxos == btc.pc = "failed" /\ btc.error = "Failed to fetch UTXOs"

\* C24: once the UTXOs have been asked for, the build has failed for lack
\* of UTXOs exactly when no API answered a list that is not empty, having
\* done nothing further; otherwise it works with the list of the usable API
\* of lowest priority number, the APIs before it having been skipped.
C24_FirstNonEmptyUtxoListByPriority ==
    btc.pc # "utxos" =>
        /\ NoUtxos <=> Usable = {}
        /\ NoUtxos => btc.utxos = <<>> /\ btc.feeRate = 0 /\ btc.log = <<>> /\ btc.tx = NoTx
        /\ ~NoUtxos =>
              \E k \in Usable :
                 /\ btc.utxos = btc.configured[k].answer.data
                 /\ \A m \in Usable : btc.configured[k].priority <= btc.configured[m].priority

\* The API listed first has the higher priority number and another list; the
\* build took the list of the API listed second.
C24_Witness ==
    /\ btc.pc = "feeRate"
    /\ Len(btc.configured) = 2
    /\ Usable = {1, 2}
    /\ btc.configured[1].priority = 2
    /\ btc.configured[1].answer.data # btc.configured[2].answer.data
    /\ btc.utxos = btc.configured[2].answer.data

\* The bytes of a number as a minimal-length big-endian unsigned integer.
MinimalBytes(hex) ==
    BufferFromHex(IF Len(hex) % 2 = 1 THEN <<0>> \o hex ELSE hex)

\* A DER integer: the minimal bytes, after one zero byte when and only
\* when the top byte is 0x80 or more.
DerInteger(hex) ==
    LET bytes == MinimalBytes(hex)
    IN  <<2, Len(bytes) + (IF bytes[1] >= 128 THEN 1 ELSE 0)>>
           \o (IF bytes[1] >= 128 THEN <<0>> ELSE <<>>) \o bytes

\* C25: the DER encoding of a signature (r, s) writes r and s as
\* minimal-length big-endian unsigned integers, each after exactly one zero
\* byte when and only when its top byte is 0x80 or more, and decoding the
\* bytes gives r and s back; the encoding never fails for a uint256.
C25_DerRoundTrip ==
    /\ btc.pc # "failed"
    /\ btc.pc \in {"encoded", "decoded"} =>
         LET R == DerInteger(btc.r)
             S == DerInteger(btc.s)
         IN  btc.derSig = <<48, Len(R) + Len(S)>> \o R \o S \o <<1>>
    /\ btc.pc = "decoded" =>
         /\ btc.read.ok
         /\ btc.read.r = btc.r
         /\ btc.read.s = btc.s

\* r has two leading zero bytes and then a byte of 0x80 or more, s has 64
\* digits of which the first is 8 or more; the signature was read back.
C25_Witness ==
    /\ btc.pc = "decoded"
    /\ Len(btc.r) = 62 /\ btc.r[1] >= 8
    /\ Len(btc.s) = 64 /\ btc.s[1] >= 8
    /\ Len(btc.derSig) = 6 + 32 + 33 + 1

\* The signature check of a proof whose deposit has exactly one sender.
ProofCheck(h) ==
    VerifySignature(h.event.txHash \o <<h.event.ethereumAddress>>,
                    h.event.signature, h.txInfo.sender[1])

ProofChecked(i) ==
    /\ handlers[i].event.name = "TransactionProofSubmitted"
    /\ handlers[i].pc # "fetch"
    /\ handlers[i].txInfo.ok
    /\ Len(handlers[i].txInfo.sender) = 1

\* C26: verifySignature always returns a boolean and never throws; for a
\* malformed signature, a signature of another message or a signature by
\* another address than the claimed one it returns false.
C26_VerifyReturnsBooleanNeverThrows ==
    \A i \in 1..Len(handlers) :
       ProofChecked(i) =>
          LET h == handlers[i]
              signedByClaimed ==
                 /\ h.event.signature # MalformedSignature
                 /\ h.event.signature.signer = h.txInfo.sender[1]
                 /\ h.event.signature.message
                       = h.event.txHash \o <<h.event.ethereumAddress>>
          IN  /\ ~ProofCheck(h).thrown
              /\ ProofCheck(h).value \in BOOLEAN
              /\ ~signedByClaimed => ~ProofCheck(h).value
              /\ h.isValid = ProofCheck(h).value
              /\ ~h.isValid => ~h.caught /\ h.pc = "done" /\ h.log = <<>>

\* A malformed signature was checked against the single sender: the
\* handler ended without minting and without an error.
C26_Witness ==
    \E i \in 1..Len(handlers) :
       /\ ProofChecked(i)
       /\ handlers[i].event.signature = MalformedSignature
       /\ handlers[i].pc = "done"
       /\ ~handlers[i].isValid
       /\ ~handlers[i].caught

\* The first of the given strategies that yields an address.
RECURSIVE FirstSuccess(_)
FirstSuccess(strategies) ==
    IF strategies = <<>> THEN NULL
    ELSE IF Head(strategies).sender # NULL THEN Head(strategies).sender
    ELSE FirstSuccess(Tail(strategies))

\* C27: the sender of an input is what the first successful strategy gives,
\* in the order direct address field, witness-based recovery, previous
\* output of an input with an empty signature script, legacy signature
\* script; so an input without address field whose witness is
\* [sig, pubkey] resolves to the witness-public-key-hash address of pubkey.
C27_AsStated ==
    \A i \in 1..Len(fetch.resolved) :
       LET input == fetch.vin[i] IN
       /\ fetch.resolved[i] =
             FirstSuccess(<<
                [thrown |-> FALSE, sender |-> input.address],
                IF Len(input.txinwitness) > 0
                THEN OrNoSender(WitnessAddress(input)) ELSE NoSender,
                IF ~input.scriptSig.present \/ input.scriptSig.hex = ""
                THEN OrNoSender(PreviousOutputAddress(input)) ELSE NoSender,
                IF input.scriptSig.present /\ input.scriptSig.asm # <<>>
                THEN OrNoSender(ScriptSigAddress(input)) ELSE NoSender >>)
       /\ input.address = NULL /\ input.txinwitness = <<"3045", "02k1">>
             => fetch.resolved[i] = "p2wpkh(02k1)"

\* No method gave the input a sender.
ResolutionFailed(input) ==
    /\ input.address = NULL
    /\ \/ /\ input.scriptSig.present /\ input.scriptSig.hex = ""
          /\ input.prev.address = NULL
       \/ /\ ~(input.scriptSig.present /\ input.scriptSig.hex = "")
          /\ Len(input.txinwitness) > 1
          /\ input.txinwitness[2] = "zz"
       \/ /\ ~input.scriptSig.present
          /\ input.txinwitness = <<>>
       \/ /\ input.scriptSig.present /\ input.scriptSig.asm = <<"[ALL]">>
          /\ input.txinwitness = <<>>
          /\ input.prev.address = NULL

\* C28: an input for which no strategy applies, whose key material cannot
\* be decoded or whose previous output cannot be looked up gets no sender
\* and raises no error: the inputs after it are resolved and the node's
\* result is produced, with the senders of the other inputs.
C28_FailedResolutionYieldsNoSender ==
    /\ \A i \in 1..Len(fetch.resolved) :
          ResolutionFailed(fetch.vin[i]) => fetch.resolved[i] = NULL
    /\ fetch.pc = "done" =>
          /\ fetch.out.ok
          /\ Len(fetch.resolved) = Len(fetch.vin)
          /\ \A i \in 1..Len(fetch.vin) :
                fetch.resolved[i] # NULL => Includes(fetch.out.sender, fetch.resolved[i])
          /\ \A k \in 1..Len(fetch.out.sender) :
                Includes(fetch.resolved, fetch.out.sender[k])

\* The first input has a witness whose key cannot be decoded, the second
\* carries its address: the result names the second input's sender only.
C28_Witness ==
    /\ fetch.pc = "done"
    /\ Len(fetch.vin) = 2
    /\ fetch.vin[1].address = NULL
    /\ fetch.vin[1].scriptSig.hex # ""
    /\ fetch.vin[1].txinwitness = <<"3045", "zz">>
    /\ fetch.out.ok
    /\ fetch.out.sender = <<AddrA>>

\* The calls on whose behalf a reconnect sequence is in progress.
Reconnecting ==
    {i \in 1..Len(sapphire.calls) : sapphire.calls[i].pc \in {"reconnect", "delay"}}

\* C29: whatever the interleaving of failing contract calls, at most one
\* reconnect sequence is in progress, and isReconnecting is set exactly
\* while it is; a failure handled meanwhile starts no reconnect.
C29_AtMostOneReconnect ==
    /\ Cardinality(Reconnecting) <= 1
    /\ sapphire.isReconnecting <=> Reconnecting # {}

\* A call failed while another call's reconnect was in progress: it made no
\* reconnect of its own and went on to retry its send.
C29_Witness ==
    \E i, j \in 1..Len(sapphire.calls) :
       /\ sapphire.calls[i].pc = "reconnect"
       /\ sapphire.calls[j].pc = "retry"
       /\ sapphire.calls[j].attempts = 0

\* C30: the handling of an RPC failure ends with a successful reconnect or,
\* after MAX_RECONNECT_ATTEMPTS failed reconnects a delay apart, with the
\* fatal error; a successful reconnect leaves the attempt counter at 0.
C30_AsStated ==
    /\ \A i \in 1..Len(sapphire.calls) :
          /\ sapphire.calls[i].pc \in {"retry", "returned", "thrown"}
                /\ sapphire.calls[i].attempts > 0
                => sapphire.calls[i].reconnected
          /\ sapphire.calls[i].pc = "fatal"
                => sapphire.calls[i].attempts = MAX_RECONNECT_ATTEMPTS
    /\ sapphire.lastReconnect = "ok" => sapphire.reconnectAttempts = 0

\* C31: the API configurations are kept sorted by ascending priority
\* number and are used as fallback in that order: an API is asked for a
\* transaction only after every API with a lower priority number has
\* failed, and the result of the first API that succeeds is returned.
C31_ApisInPriorityOrder ==
    LET Priority(k) == btc.apiConfigs[k].priority
        n == Len(btc.configured)
    IN  /\ Len(btc.apiConfigs) = n
        /\ \A k \in 1..n : \E m \in 1..n : btc.apiConfigs[m] = btc.configured[k]
        /\ \A k, m \in 1..n : k < m => Priority(k) <= Priority(m)
        /\ \A k, m \in 1..Len(btc.failed) : k < m => btc.failed[k] <= btc.failed[m]
        /\ \A k \in 1..n :
              btc.pc # "failed" /\ btc.configured[k].priority < Priority(btc.i)
                 => Includes(btc.failed, btc.configured[k].priority)
        /\ btc.pc = "done" =>
              /\ btc.out.ok
              /\ btc.out.provider = btc.i
              /\ \A k \in 1..Len(btc.failed) : btc.failed[k] < Priority(btc.i)
        /\ btc.pc = "failed" =>
              \A k \in 1..n : Includes(btc.failed, btc.configured[k].priority)

\* The APIs were configured with the higher priority number first; the API
\* of priority 1 failed and the result of the API of priority 2 is returned.
C31_Witness ==
    /\ btc.pc = "done"
    /\ Len(btc.configured) = 2
    /\ btc.configured[1].priority = 2
    /\ btc.failed = <<1>>
    /\ btc.apiConfigs[btc.out.provider].priority = 2

\* C32: the burn-generate handler calls sendRawTransaction only after its
\* burnSigned transaction has been sent and confirmed, with the transaction
\* whose hash it submitted and the contract recorded; a handler whose
\* burnSigned failed or reverted broadcasts nothing.
C32_BroadcastOnlyAfterBurnSigned ==
    \A i \in HandlersOf("BurnGenerateTransaction") :
        LET h == handlers[i] IN
        /\ HasCall(h, "sendRawTransaction") =>
              /\ h.confirmed
              /\ \E k, m \in 1..Len(h.log) :
                    /\ k < m
                    /\ h.log[k].op = "burnSigned"
                    /\ h.log[m].op = "sendRawTransaction"
                    /\ h.log[k].hash = With0x(h.log[m].hash)
              /\ burn.status \in {Signed, Validated}
              /\ burn.transactionHash = With0x(Broadcasts(h)[1].hash)
        /\ ~h.confirmed => ~h.sent

\* One handler's burnSigned was confirmed and its transaction broadcast;
\* another handler's burnSigned failed and it broadcast nothing.
C32_Witness ==
    \E i, j \in HandlersOf("BurnGenerateTransaction") :
        /\ handlers[i].confirmed
        /\ handlers[i].sent
        /\ burn.transactionHash = With0x(handlers[i].tx.txHash)
        /\ HasCall(handlers[j], "burnSigned")
        /\ ~handlers[j].confirmed
        /\ handlers[j].pc = "done"
        /\ Broadcasts(handlers[j]) = <<>>

\* The contract holds the burn as Signed with the hash a handler submitted,
\* and that handler has not broadcast the transaction.
SignedAndNotBroadcast ==
    /\ burn.status = Signed
    /\ \E i \in HandlersOf("BurnGenerateTransaction") :
          /\ handlers[i].pc \in {"burnSignedWait", "broadcast", "done"}
          /\ HasCall(handlers[i], "burnSigned")
          /\ burn.transactionHash = With0x(handlers[i].tx.txHash)
          /\ ~handlers[i].sent

\* C33: a burn that the contract recorded as Signed through the oracle's
\* burnSigned call has its transaction broadcast in the end: the burn does
\* not stay Signed forever with a transaction that was never broadcast.
C33_AsStated == []<>~SignedAndNotBroadcast

\* C34: mint is never called with amount 0; a proof whose Bitcoin
\* transaction does not pay the tracked address (receiver null, amount 0)
\* leads to no mint, even with a unique sender and a valid signature.
C34_AsStated ==
    \A i \in HandlersOf("TransactionProofSubmitted") :
        /\ \A k \in 1..Len(handlers[i].log) :
              handlers[i].log[k].op = "mint" => handlers[i].log[k].amount > 0
        /\ (handlers[i].txInfo.ok /\ handlers[i].txInfo.receiver = NULL) =>
              ~HasCall(handlers[i], "mint")

\* C35: once stop() has returned, the three handlers are unsubscribed: no
\* handler is started for an event emitted while the oracle is stopped.
C35_AsStated ==
    [][~oracle.isRunning => Len(handlers') = Len(handlers)]_vars

\* C36: whenever no handleRpcError call is in progress isReconnecting is
\* false, whichever way the calls left it (reconnected, retry after the
\* delay, fatal error), so that the next RPC failure starts a reconnect.
C36_FlagClearedOutsideHandleRpcError ==
    (\A i \in 1..Len(sapphire.calls) :
        sapphire.calls[i].pc \notin {"reconnect", "delay"})
    => /\ ~sapphire.isReconnecting
       /\ StartsReconnect(sapphire)

\* No call is in handleRpcError; one has left it with the fatal error and
\* another after a failed reconnect and the delay.
C36_Witness ==
    /\ \A i \in 1..Len(sapphire.calls) :
          sapphire.calls[i].pc \notin {"reconnect", "delay"}
    /\ ~sapphire.isReconnecting
    /\ \E i, j \in 1..Len(sapphire.calls) :
          /\ sapphire.calls[i].pc = "fatal"
          /\ sapphire.calls[j].pc \in {"retry", "returned", "thrown"}
          /\ sapphire.calls[j].attempts = 1
          /\ ~sapphire.calls[j].reconnected

\* C37: a contract call that failed with an RPC error is sent again only
\* after a reconnect has succeeded since the failure, also when the failure
\* came while another call's reconnect was in progress or when the call's
\* own reconnect failed below the bound.
C37_AsStated ==
    \A i \in 1..Len(sapphire.calls) :
        sapphire.calls[i].pc = "retry" => sapphire.calls[i].reconnected

\* C38: getNetworkFeeRate returns an integer of at least 1 satoshi per
\* byte for every answer of the provider (a zero, missing or negative
\* estimate, or an error), so that the planned fee is never 0 or negative.
C38_AsStated ==
    btc.pc \in {"amounts", "build", "login", "sign", "done"} =>
        /\ btc.feeRate >= 1
        /\ btc.pc # "amounts" => btc.amounts.fee > 0

\* C39: every successful plan and build conserves value: send + change +
\* fee is the summed value of all collected UTXOs, send is the requested
\* amount, change >= 0 and fee > 0, and the outputs of the transaction sum
\* to no more than its inputs.
C39_AsStated ==
    btc.pc \in {"build", "login", "sign", "done"} =>
        /\ btc.amounts.amountToSendSat + btc.amounts.change + btc.amounts.fee
              = TotalBalance(btc.utxos)
        /\ btc.amounts.amountToSendSat = btc.amountSat
        /\ btc.amounts.change >= 0
        /\ btc.amounts.fee > 0
        /\ btc.pc # "build" =>
              btc.psbt.outputs[1].value + btc.psbt.outputs[2].value
                 <= TotalBalance(btc.psbt.inputs)

=============================================================================
